---- MODULE Spec2Model ----
(***************************************************************************)
(* A model of the price-resolution engine of kol_analysis                  *)
(* (src/kol_analysis/src/analyze_price.py, class PriceAnalyzer).           *)
(*                                                                         *)
(* Times are whole seconds counted from a reference instant chosen so that *)
(* every millisecond value of the model fits a 32-bit integer; upstream    *)
(* timestamps are milliseconds (the code divides them by 1000).            *)
(*                                                                         *)
(* JSON values are tagged records: [t |-> "absent"] is a key that is not   *)
(* in its dict, [t |-> "null"] is None, [t |-> "num", v |-> n] a number.   *)
(* A dict-valued entry is [t |-> "obj", x |-> <the one inner value>].      *)
(***************************************************************************)
EXTENDS Integers, Sequences, FiniteSets, TLC

VARIABLES
    \* ---- PriceAnalyzer fields
    cmc_api_key,        \* self.cmc_api_key: TRUE when CMC_API_KEY is set
    price_cache,        \* self.price_cache: cache key -> price point
    last_request_time,  \* self.last_request_time
    \* ---- one get_price_at_time call
    now,                \* the wall clock (time.time(), datetime.now(UTC))
    pc,                 \* where the call stands
    pair_data,          \* argument pair_data
    target_time,        \* argument target_time
    token_symbol,       \* argument token_symbol
    timeframe,          \* the caller's label of target_time
    current_time,       \* the local current_time of line 257
    cmc_id,             \* the local cmc_id of line 272
    series,             \* data['data'] of the last DEXScreener series read
    series_of,          \* "none", "candles" or "history": what series holds
    log,                \* what the call did so far, in order
    result,             \* the returned price point, as a set of at most one
    \* ---- tasks calling rate_limit concurrently
    rl_pc,              \* task -> "idle" or "sleeping" (in asyncio.sleep)
    rl_wake,            \* task -> the instant its sleep ends
    grants,             \* the instants of the last two returns of rate_limit
    \* ---- one get_best_token_pair call
    bp_pc,              \* "idle" or "done"
    bp_resp,            \* the response the search got
    bp_pairs,           \* data['pairs'] of the search response
    bp_tweet_time,      \* argument tweet_time
    bp_best,            \* the returned pair, as a set of at most one
    \* ---- one analyze_tweet_impact call
    im_pc,              \* "idle" or "done"
    im_now,             \* the local current_time of line 378
    im_points,          \* timeframe -> the price point resolved for it
    im_changes,         \* later timeframe -> the price_change of the record
    \* ---- one provider-client operation called on its own
    cl_pc,              \* "idle" or "done"
    cl_op,              \* the operation called
    cl_resp,            \* the upstream response it got
    cl_out,             \* what it gave back: raised, requests, value
    \* ---- the cache functions called on their own
    ca_stored,          \* triple -> the points stored for it, in order
    ca_triple,          \* the triple of the last lookup
    ca_found,           \* what the last lookup returned, as a set
    \* ---- the result record of one price point, saved and read back
    sv_pc,              \* "none", "recorded", "saved" or "loaded"
    sv_record,          \* the record's fields of the point
    sv_file,            \* the JSON text of each field in the output file
    sv_parsed,          \* the fields parsed back from the file
    \* ---- tasks calling get_price_at_time concurrently
    fl_pc,              \* task -> where its call stands
    fl_tf,              \* task -> the timeframe label of its call
    fl_wake,            \* task -> the instant its rate_limit sleep ends
    fl_result,          \* task -> the point it returns, as a set
    fl_log,             \* task -> the upstream requests of its call, in order
    \* ---- rate_limit called by one task, call after call
    sq_pc,              \* "idle", "sleeping", "turn" (rate_limit returned) or "sent"
    sq_wake,            \* the instant the last sleep was to end (0: no sleep)
    sq_returns,         \* the instants of the last two returns of rate_limit
    sq_sends,           \* the instants the last two requests were sent
    \* ---- one analyze_tweet_impact call, offset by offset
    os_pc,              \* "idle", "pair", the timeframe to resolve next, or "done"
    os_now,             \* the local current_time of line 378
    os_order,           \* the timeframes resolved so far, in order
    os_points,          \* timeframe -> the price point resolved for it
    os_requests,        \* timeframe -> the upstream requests made for it
    os_changes,         \* later timeframe -> the price_change of the record
    \* ---- one analyze_all_tweets call
    ba_pc,              \* "idle", "loop" or "done"
    ba_tweets,          \* the tweets read from the file
    ba_tokens,          \* the list of extracted tokens
    ba_i,               \* the tweet the loop stands at
    ba_j,               \* the token the loop stands at
    ba_results,         \* the local list results
    ba_raised,          \* whether an exception reached line 523
    ba_out,             \* the returned list
    \* ---- print_analysis_summary on the record of one analysis
    su_pc,              \* "none" or "printed"
    su_now,             \* the local current_time of line 581
    su_shown,           \* later timeframe -> whether a percentage is displayed, and which
    \* ---- one fetch of a timeline (fetch_tweets.py, scraper.py)
    tl_pc,              \* "idle" or "done"
    tl_op,              \* the function called
    tl_count,           \* argument count
    tl_instructions,    \* the instructions of the response
    tl_raised,          \* whether the call raised
    tl_out              \* the returned list of tweets

resolverVars == <<cmc_api_key, price_cache, last_request_time, now, pc,
                  pair_data, target_time, token_symbol, timeframe,
                  current_time, cmc_id, series, series_of, log, result>>

callVars == <<pc, pair_data, target_time, token_symbol, timeframe,
              current_time, cmc_id, series, series_of, log, result>>
rateVars == <<rl_pc, rl_wake, grants>>
pairVars == <<bp_pc, bp_resp, bp_pairs, bp_tweet_time, bp_best>>
impactVars == <<im_pc, im_now, im_points, im_changes>>

clientVars == <<cl_pc, cl_op, cl_resp, cl_out>>
cacheVars == <<ca_stored, ca_triple, ca_found>>
recordVars == <<sv_pc, sv_record, sv_file, sv_parsed>>
flightVars == <<fl_pc, fl_tf, fl_wake, fl_result, fl_log>>

turnVars == <<sq_pc, sq_wake, sq_returns, sq_sends>>

offsetVars == <<os_pc, os_now, os_order, os_points, os_requests, os_changes>>

batchVars == <<ba_pc, ba_tweets, ba_tokens, ba_i, ba_j, ba_results, ba_raised, ba_out>>

summaryVars == <<su_pc, su_now, su_shown>>

timelineVars == <<tl_pc, tl_op, tl_count, tl_instructions, tl_raised, tl_out>>

vars == <<resolverVars, rateVars, pairVars, impactVars, clientVars,
          cacheVars, recordVars, flightVars,
          turnVars,
          offsetVars,
          batchVars,
          summaryVars,
          timelineVars>>

\* What the actions of each part leave alone.
nonResolverVars == <<rateVars, pairVars, impactVars, clientVars, cacheVars,
                     recordVars, flightVars,
    turnVars,
    offsetVars,
    batchVars,
    summaryVars,
    timelineVars>>
nonRateVars == <<cmc_api_key, price_cache, callVars, pairVars, impactVars,
                 clientVars, cacheVars, recordVars, flightVars,
    turnVars,
    offsetVars,
    batchVars,
    summaryVars,
    timelineVars>>
nonPairVars == <<resolverVars, rateVars, impactVars, clientVars, cacheVars,
                 recordVars, flightVars,
    turnVars,
    offsetVars,
    batchVars,
    summaryVars,
    timelineVars>>
nonImpactVars == <<resolverVars, rateVars, pairVars, clientVars, cacheVars,
                   recordVars, flightVars,
    turnVars,
    offsetVars,
    batchVars,
    summaryVars,
    timelineVars>>
nonClientVars == <<cmc_api_key, price_cache, callVars, rateVars, pairVars,
                   impactVars, cacheVars, recordVars, flightVars,
    turnVars,
    offsetVars,
    batchVars,
    summaryVars,
    timelineVars>>
nonCacheVars == <<cmc_api_key, last_request_time, now, callVars, rateVars,
                  pairVars, impactVars, clientVars, recordVars, flightVars,
    turnVars,
    offsetVars,
    batchVars,
    summaryVars,
    timelineVars>>
nonRecordVars == <<rateVars, pairVars, impactVars, clientVars, cacheVars,
                   flightVars,
    turnVars,
    offsetVars,
    batchVars,
    summaryVars,
    timelineVars>>
nonFlightVars == <<cmc_api_key, price_cache, callVars, rateVars, pairVars,
                   impactVars, clientVars, cacheVars, recordVars,
    turnVars,
    offsetVars,
    batchVars,
    summaryVars,
    timelineVars>>
nonTurnVars == <<cmc_api_key, price_cache, callVars, rateVars, pairVars,
    impactVars, clientVars, cacheVars, recordVars, flightVars,
    offsetVars,
    batchVars,
    summaryVars,
    timelineVars>>
nonOffsetVars == <<cmc_api_key, price_cache, last_request_time, callVars,
    rateVars, pairVars, impactVars, clientVars, cacheVars, recordVars,
    flightVars, turnVars,
    batchVars,
    summaryVars,
    timelineVars>>
nonBatchVars == <<resolverVars, rateVars, pairVars, impactVars, clientVars,
    cacheVars, recordVars, flightVars, turnVars, offsetVars,
    summaryVars,
    timelineVars>>
nonSummaryVars == <<resolverVars, rateVars, pairVars, impactVars,
    clientVars, cacheVars, recordVars, flightVars, turnVars, offsetVars,
    batchVars,
    timelineVars>>
nonImpactSummaryVars == <<resolverVars, rateVars, pairVars, clientVars,
    cacheVars, recordVars, flightVars, turnVars, offsetVars, batchVars,
    timelineVars>>
nonTimelineVars == <<resolverVars, rateVars, pairVars, impactVars,
    clientVars, cacheVars, recordVars, flightVars, turnVars, offsetVars,
    batchVars, summaryVars>>

--------------------------------------------------------------------------
(* Bounds of the model *)

\* The longest candle or history series an upstream response carries.
MaxSeries == 2
\* How many seconds of rate-limiter sleep the resolver's clock may gather
\* before no further call is started.
MaxDrift == 2

(* Program constants *)

\* self.min_request_interval = 1.0
MinRequestInterval == 1
\* "min_time_diff <= 43200", in seconds
MaxTimeDiff == 43200

--------------------------------------------------------------------------
(* JSON values *)

AbsentV == [t |-> "absent", v |-> 0]
NullV   == [t |-> "null", v |-> 0]
Num(n)  == [t |-> "num", v |-> n]

AbsentD == [t |-> "absent", x |-> AbsentV]
NullD   == [t |-> "null", x |-> AbsentV]
Dict(inner) == [t |-> "obj", x |-> inner]

\* d.get(key): a missing key reads as None.
Get(val) == IF val.t = "absent" THEN NullV ELSE val

\* d.get(outer, {}).get(inner): raises AttributeError when d[outer] is None.
NestedGet(d) ==
    CASE d.t = "absent" -> [raised |-> FALSE, val |-> NullV]
      [] d.t = "null"   -> [raised |-> TRUE, val |-> NullV]
      [] OTHER          -> [raised |-> FALSE, val |-> Get(d.x)]

\* Python truthiness of a number or None.
Truthy(val) == val.t = "num" /\ val.v # 0

Abs(n) == IF n < 0 THEN 0 - n ELSE n

--------------------------------------------------------------------------
(* Inputs *)

\* The tweet's instant, and the wall clock when the analysis starts: seven
\* days after the tweet, so that the 7d target is exactly "now" and the 30d
\* target is in the future.
TweetTime == 0 - 1500000
Now0 == TweetTime + 7 * 86400
\* The instant time.time() = 0: far before any call.
EpochZero == Now0 - 100000

Timeframes == {"first_mention", "post_24h", "post_7d", "post_30d"}

\* The offsets with those of post_24h and post_7d exchanged.
TimeframeOffsetSwapped(tf) ==
    CASE tf = "first_mention" -> 0
      [] tf = "post_24h"      -> 7 * 86400
      [] tf = "post_7d"       -> 24 * 3600
      [] tf = "post_30d"      -> 30 * 86400
\* self.timeframes
TimeframeOffset(tf) ==
    CASE tf = "first_mention" -> 0
      [] tf = "post_24h"      -> 24 * 3600
      [] tf = "post_7d"       -> 7 * 86400
      [] tf = "post_30d"      -> 30 * 86400

Tokens == {"PEPE"}

PairBase ==
    [pairAddress |-> "0xpair", chainId |-> "solana",
     priceUsd |-> Num(3), priceNative |-> Num(1),
     liquidity |-> Dict(Num(10)), volume |-> Dict(Num(7)),
     pairCreatedAt |-> Num((TweetTime - 7200) * 1000)]

\* Pairs as the DEXScreener search returns them: complete, without a pair
\* address, without a chain id, with "volume": null, and with neither
\* price nor liquidity nor volume.
PairContexts ==
    { PairBase,
      [PairBase EXCEPT !.pairAddress = ""],
      [PairBase EXCEPT !.chainId = ""],
      [PairBase EXCEPT !.volume = NullD],
      [PairBase EXCEPT !.priceUsd = AbsentV, !.priceNative = AbsentV,
                       !.liquidity = AbsentD, !.volume = AbsentD] }

NoPair == [PairBase EXCEPT !.pairAddress = "", !.chainId = ""]

\* A sample of a candle series ({timestamp, close}) or of a history series
\* ({timestamp, priceUsd, priceNative, liquidityUsd, volumeUsd}).
CandleSample(ts, p) ==
    [timestamp |-> ts, close |-> Num(p), priceUsd |-> AbsentV,
     priceNative |-> AbsentV, liquidityUsd |-> AbsentV, volumeUsd |-> AbsentV]
HistorySample(ts, p) ==
    [timestamp |-> ts, close |-> AbsentV, priceUsd |-> Num(p),
     priceNative |-> Num(p + 1), liquidityUsd |-> Num(p + 2),
     volumeUsd |-> Num(p + 3)]

\* Millisecond offsets of the samples from the target: 1 h before and 1 h
\* after (a tie), exactly 12 h, 12 h and 1 ms, 20 h before.
SampleOffsets == <<0 - 3600000, 3600000, 43200000, 43200001, 0 - 72000000>>

\* The samples an upstream may send for a target, each with its own price;
\* the last one lacks its timestamp.
CandleSamples(target) ==
    { CandleSample(Num(target * 1000 + SampleOffsets[i]), 10 * i) :
        i \in DOMAIN SampleOffsets } \cup { CandleSample(AbsentV, 90) }
HistorySamples(target) ==
    { HistorySample(Num(target * 1000 + SampleOffsets[i]), 10 * i) :
        i \in DOMAIN SampleOffsets } \cup { HistorySample(AbsentV, 90) }

SeqsUpTo(S, n) == UNION { [1..k -> S] : k \in 0..n }

\* An HTTP exchange: the transport raised, or a status and a body; the body
\* is a dict or not, and its 'data' entry is a list (empty when missing).
Response(exc, status, isdict, data) ==
    [exc |-> exc, status |-> status, isdict |-> isdict, data |-> data]

FailedResponses ==
    { Response(TRUE, 0, TRUE, <<>>), Response(FALSE, 500, TRUE, <<>>),
      Response(FALSE, 200, FALSE, <<>>), Response(FALSE, 200, TRUE, <<>>) }

\* An entry of the CoinMarketCap map: a dict with an id, with id 0, without
\* id, or not a dict at all.
CmcItem(isdict, id) == [isdict |-> isdict, id |-> id]
CmcItems == { CmcItem(TRUE, Num(42)), CmcItem(TRUE, Num(0)),
              CmcItem(TRUE, AbsentV), CmcItem(FALSE, AbsentV) }
NoItem == CmcItem(TRUE, AbsentV)

CmcMapResponses ==
    FailedResponses \cup { Response(FALSE, 200, TRUE, <<it>>) : it \in CmcItems }

\* A quote of the OHLCV endpoint: close, volume, market_cap; or an entry
\* without 'quotes' (KeyError).
CmcQuote(ok, close) == [ok |-> ok, close |-> close, volume |-> Num(5),
                        market_cap |-> Num(6)]
CmcQuotes == { CmcQuote(TRUE, Num(2)), CmcQuote(TRUE, NullV),
               CmcQuote(TRUE, AbsentV), CmcQuote(FALSE, AbsentV) }

CmcOhlcvResponses ==
    FailedResponses \cup { Response(FALSE, 200, TRUE, <<q>>) : q \in CmcQuotes }

CandleResponses(target) ==
    FailedResponses \cup
    { Response(FALSE, 200, TRUE, s) : s \in SeqsUpTo(CandleSamples(target), MaxSeries) }
HistoryResponses(target) ==
    FailedResponses \cup
    { Response(FALSE, 200, TRUE, s) : s \in SeqsUpTo(HistorySamples(target), MaxSeries) }

--------------------------------------------------------------------------
(* Price points *)

Point(price_usd, price_native, liquidity_usd, volume_24h, market_cap, ts, src) ==
    [price_usd |-> price_usd, price_native |-> price_native,
     liquidity_usd |-> liquidity_usd, volume_24h |-> volume_24h,
     market_cap |-> market_cap, timestamp |-> ts, data_source |-> src]

\* Lines 259-266.
FuturePoint(target) ==
    Point(NullV, NullV, NullV, NullV, AbsentV, target * 1000, "future_date")

\* A value for the variables that hold no point.
NoPoint == Point(AbsentV, AbsentV, AbsentV, AbsentV, AbsentV, 0, "none")

--------------------------------------------------------------------------
(* The rate limiter, as one task alone sees it *)

\* A sleep one unit short of the rest of the interval.
SleepForShort(t, last, interval) ==
    IF t - last < interval THEN interval - (t - last) - 1 ELSE 0
\* Lines 51-54: how long rate_limit sleeps when called at instant t (0: it
\* does not sleep at all).
SleepFor(t, last, interval) ==
    IF t - last < interval THEN interval - (t - last) ELSE 0

\* rate_limit: the instant it returns when called at instant t, which is
\* also the new last_request_time; the sleep lasts exactly what is asked.
RateLimit(t, last) == t + SleepFor(t, last, MinRequestInterval)

--------------------------------------------------------------------------
(* The price cache *)

EmptyCache == [k \in {} |-> NoPoint]

get_cache_key(token, pair_address, tf) ==
    token \o "_" \o pair_address \o "_" \o tf

\* A store that keeps nothing but the entry it writes.
store_price_dataEvicting(cache, token, pair_address, tf, price_data) ==
    LET cache_key == get_cache_key(token, pair_address, tf)
    IN  [k \in {cache_key} |-> price_data]
store_price_data(cache, token, pair_address, tf, price_data) ==
    LET cache_key == get_cache_key(token, pair_address, tf)
    IN  [k \in DOMAIN cache \cup {cache_key} |->
            IF k = cache_key THEN price_data ELSE cache[k]]

\* The cached point as a set: empty when the key was never stored.
get_cached_price_data(cache, token, pair_address, tf) ==
    LET cache_key == get_cache_key(token, pair_address, tf)
    IN  IF cache_key \in DOMAIN cache THEN {cache[cache_key]} ELSE {}

--------------------------------------------------------------------------
(* The provider steps of get_price_at_time, as functions of the response *)

\* The comparison of line 258 the wrong way round.
IsFutureWrong(target, t) == target < t
\* Line 258: target_time > current_time.
IsFuture(target, t) == target > t

\* search_cmc_token, after the request: the first entry of the map, or None.
search_cmc_token(resp) ==
    IF ~resp.exc /\ resp.status = 200 /\ resp.isdict /\ resp.data # <<>>
    THEN [found |-> TRUE, item |-> resp.data[1]]
    ELSE [found |-> FALSE, item |-> NoItem]

\* Lines 271-273: the id to ask the history of, as a set; empty when the
\* token was not found, has no id, a zero id, or is no dict (AttributeError,
\* caught at line 279).
CmcIdOf(tok) ==
    IF tok.found /\ tok.item.isdict /\ Truthy(Get(tok.item.id))
    THEN {tok.item.id.v}
    ELSE {}

\* get_cmc_historical_price, after the request: the point, as a set.
get_cmc_historical_price(resp, target) ==
    IF ~resp.exc /\ resp.status = 200 /\ resp.isdict /\ resp.data # <<>>
       /\ resp.data[1].ok
    THEN LET quote == resp.data[1]
         IN  { Point(Get(quote.close), AbsentV, AbsentV, Get(quote.volume),
                     Get(quote.market_cap), target * 1000, "coinmarketcap") }
    ELSE {}

\* The loops of lines 309-315 and 342-348 from sample i on: closest is the
\* set holding the closest sample so far (empty for None, and then
\* min_time_diff stands for float('inf')); time differences are in
\* milliseconds. A sample without a timestamp raises.
RECURSIVE ScanFrom(_, _, _, _, _)
ScanFrom(data, target, i, closest, min_time_diff) ==
    IF i > Len(data)
    THEN [raised |-> FALSE, closest |-> closest, min_time_diff |-> min_time_diff]
    ELSE IF data[i].timestamp.t # "num"
    THEN [raised |-> TRUE, closest |-> {}, min_time_diff |-> 0]
    ELSE LET time_diff == Abs(data[i].timestamp.v - target * 1000)
         IN  IF closest = {} \/ time_diff < min_time_diff
             THEN ScanFrom(data, target, i + 1, {data[i]}, time_diff)
             ELSE ScanFrom(data, target, i + 1, closest, min_time_diff)

\* A scan that keeps the last sample seen instead of the closest.
ClosestSampleLast(data, target) ==
    IF \E i \in DOMAIN data : data[i].timestamp.t # "num"
    THEN [raised |-> TRUE, closest |-> {}, min_time_diff |-> 0]
    ELSE IF data = <<>>
    THEN [raised |-> FALSE, closest |-> {}, min_time_diff |-> 0]
    ELSE [raised |-> FALSE, closest |-> {data[Len(data)]},
          min_time_diff |-> Abs(data[Len(data)].timestamp.v - target * 1000)]
\* The scan of lines 306-315 and 339-348.
ClosestSample(data, target) == ScanFrom(data, target, 1, {}, 0)

\* The test of lines 317 and 350 without its bound.
WithinBoundLoose(scan) == ~scan.raised /\ scan.closest # {}
\* The bound of lines 317 and 350 with < for <=.
WithinBoundStrict(scan) ==
    ~scan.raised /\ scan.closest # {} /\ scan.min_time_diff < MaxTimeDiff * 1000
\* Lines 317 and 350: "closest and min_time_diff <= 43200".
WithinBound(scan) ==
    ~scan.raised /\ scan.closest # {} /\ scan.min_time_diff <= MaxTimeDiff * 1000

\* Whether the body of a DEXScreener response is scanned (lines 302-304).
HasData(resp) ==
    ~resp.exc /\ resp.status = 200 /\ resp.isdict /\ resp.data # <<>>

\* Lines 302-325: the point of the candles step, as a set.
CandlesPoint(resp, pd, target) ==
    IF ~HasData(resp) THEN {}
    ELSE LET scan == ClosestSample(resp.data, target)
             liq  == NestedGet(pd.liquidity)
             vol  == NestedGet(pd.volume)
         IN  IF WithinBound(scan) /\ ~liq.raised /\ ~vol.raised
             THEN LET c == CHOOSE s \in scan.closest : TRUE
                  IN  { Point(Get(c.close), Get(c.close), liq.val, vol.val,
                              AbsentV, c.timestamp.v, "dexscreener_candles") }
             ELSE {}

\* Lines 335-358: the point of the history step, as a set.
HistoryPoint(resp, target) ==
    IF ~HasData(resp) THEN {}
    ELSE LET scan == ClosestSample(resp.data, target)
         IN  IF WithinBound(scan)
             THEN LET c == CHOOSE s \in scan.closest : TRUE
                  IN  { Point(Get(c.priceUsd), Get(c.priceNative),
                              Get(c.liquidityUsd), Get(c.volumeUsd),
                              AbsentV, c.timestamp.v, "dexscreener_historical") }
             ELSE {}

\* The current values with the native price where the USD price belongs.
CurrentPointNative(pd, target) ==
    LET liq == NestedGet(pd.liquidity)
        vol == NestedGet(pd.volume)
    IN  [raised |-> liq.raised \/ vol.raised,
         point  |-> Point(Get(pd.priceNative), Get(pd.priceNative), liq.val,
                          vol.val, AbsentV, target * 1000, "dexscreener_current")]
\* Lines 364-371: the pair's current values; raised when a nested read
\* fails (no try encloses these lines).
CurrentPoint(pd, target) ==
    LET liq == NestedGet(pd.liquidity)
        vol == NestedGet(pd.volume)
    IN  [raised |-> liq.raised \/ vol.raised,
         point  |-> Point(Get(pd.priceUsd), Get(pd.priceNative), liq.val,
                          vol.val, AbsentV, target * 1000, "dexscreener_current")]

\* The test of line 289 with "or" for "and".
HasPairOrChain(pd) == pd.pairAddress # "" \/ pd.chainId # ""
\* Line 289.
HasPairAndChain(pd) == pd.pairAddress # "" /\ pd.chainId # ""

--------------------------------------------------------------------------
(* get_price_at_time, one step per provider *)

\* No call of get_price_at_time is under way.
NoCall ==
    /\ pc = "idle"
    /\ pair_data = NoPair
    /\ target_time = 0
    /\ token_symbol = ""
    /\ timeframe = ""
    /\ current_time = 0
    /\ cmc_id = 0
    /\ series = <<>>
    /\ series_of = "none"
    /\ log = <<>>
    /\ result = {}

\* __init__ (lines 29-47), at the instant the analysis starts.
InitResolver ==
    /\ cmc_api_key \in BOOLEAN
    /\ price_cache = EmptyCache
    /\ last_request_time = EpochZero
    /\ now = Now0
    /\ NoCall

\* Lines 253-266: the call and its future check.
Call(pd, tf, tok) ==
    /\ pc = "idle"
    /\ now - Now0 < MaxDrift
    /\ pair_data' = pd
    /\ timeframe' = tf
    /\ token_symbol' = tok
    /\ target_time' = TweetTime + TimeframeOffset(tf)
    /\ current_time' = now
    /\ IF IsFuture(TweetTime + TimeframeOffset(tf), now)
       THEN /\ result' = {FuturePoint(TweetTime + TimeframeOffset(tf))}
            /\ pc' = "done"
       ELSE /\ result' = {}
            /\ pc' = "cmc_search"
    /\ UNCHANGED <<cmc_api_key, price_cache, last_request_time, now, cmc_id,
                   series, series_of, log>>
    /\ UNCHANGED nonResolverVars

\* The step without the key check of lines 66-68: the map is requested
\* whether or not there is a key.
CmcSearchNoKeyCheck ==
    /\ pc = "cmc_search"
    /\ \E resp \in CmcMapResponses :
        LET grant == RateLimit(now, last_request_time)
            id    == CmcIdOf(search_cmc_token(resp))
        IN  /\ now' = grant
            /\ last_request_time' = grant
            /\ log' = log \o <<"rate_limit", "cmc_map">>
            /\ IF id # {}
               THEN /\ cmc_id' = CHOOSE n \in id : TRUE
                    /\ pc' = "cmc_hist"
               ELSE /\ cmc_id' = cmc_id
                    /\ pc' = "dex"
    /\ UNCHANGED <<cmc_api_key, price_cache, pair_data, target_time,
                   token_symbol, timeframe, current_time, series, series_of,
                   result>>
    /\ UNCHANGED nonResolverVars
\* Lines 270-273 with search_cmc_token (lines 64-85).
CmcSearch ==
    /\ pc = "cmc_search"
    /\ IF ~cmc_api_key
       THEN /\ pc' = "dex"
            /\ UNCHANGED <<last_request_time, now, cmc_id, log>>
       ELSE \E resp \in CmcMapResponses :
            LET grant == RateLimit(now, last_request_time)
                id    == CmcIdOf(search_cmc_token(resp))
            IN  /\ now' = grant
                /\ last_request_time' = grant
                /\ log' = log \o <<"rate_limit", "cmc_map">>
                /\ IF id # {}
                   THEN /\ cmc_id' = CHOOSE n \in id : TRUE
                        /\ pc' = "cmc_hist"
                   ELSE /\ cmc_id' = cmc_id
                        /\ pc' = "dex"
    /\ UNCHANGED <<cmc_api_key, price_cache, pair_data, target_time,
                   token_symbol, timeframe, current_time, series, series_of,
                   result>>
    /\ UNCHANGED nonResolverVars

\* The step without its "return historical_data": the data is kept and the
\* cascade goes on.
CmcHistoricalNoReturn ==
    /\ pc = "cmc_hist"
    /\ \E resp \in CmcOhlcvResponses :
        LET grant == RateLimit(now, last_request_time)
            historical_data == get_cmc_historical_price(resp, target_time)
        IN  /\ now' = grant
            /\ last_request_time' = grant
            /\ log' = log \o <<"rate_limit", "cmc_ohlcv">>
            /\ result' = historical_data
            /\ pc' = "dex"
    /\ UNCHANGED <<cmc_api_key, price_cache, pair_data, target_time,
                   token_symbol, timeframe, current_time, cmc_id, series,
                   series_of>>
    /\ UNCHANGED nonResolverVars
\* Lines 274-278 with get_cmc_historical_price (lines 87-124).
CmcHistorical ==
    /\ pc = "cmc_hist"
    /\ \E resp \in CmcOhlcvResponses :
        LET grant == RateLimit(now, last_request_time)
            historical_data == get_cmc_historical_price(resp, target_time)
        IN  /\ now' = grant
            /\ last_request_time' = grant
            /\ log' = log \o <<"rate_limit", "cmc_ohlcv">>
            /\ IF historical_data # {}
               THEN /\ result' = historical_data
                    /\ pc' = "done"
               ELSE /\ result' = result
                    /\ pc' = "dex"
    /\ UNCHANGED <<cmc_api_key, price_cache, pair_data, target_time,
                   token_symbol, timeframe, current_time, cmc_id, series,
                   series_of>>
    /\ UNCHANGED nonResolverVars

\* Lines 283-328: the DEXScreener step is entered ("Using DEXScreener
\* data"), and the candles are requested when the pair has an address and a
\* chain.
DexCandles ==
    /\ pc = "dex"
    /\ IF HasPairAndChain(pair_data)
       THEN \E resp \in CandleResponses(target_time) :
            LET point == CandlesPoint(resp, pair_data, target_time)
            IN  /\ log' = log \o <<"using_dex", "dex_candles">>
                /\ series' = IF HasData(resp) THEN resp.data ELSE <<>>
                /\ series_of' = "candles"
                /\ IF point # {}
                   THEN /\ result' = point
                        /\ pc' = "done"
                   ELSE /\ result' = result
                        /\ pc' = "dex_history"
       ELSE /\ log' = log \o <<"using_dex">>
            /\ pc' = "fallback"
            /\ UNCHANGED <<series, series_of, result>>
    /\ UNCHANGED <<cmc_api_key, price_cache, last_request_time, now,
                   pair_data, target_time, token_symbol, timeframe,
                   current_time, cmc_id>>
    /\ UNCHANGED nonResolverVars

\* Lines 330-361.
DexHistory ==
    /\ pc = "dex_history"
    /\ \E resp \in HistoryResponses(target_time) :
        LET point == HistoryPoint(resp, target_time)
        IN  /\ log' = log \o <<"dex_history">>
            /\ series' = IF HasData(resp) THEN resp.data ELSE <<>>
            /\ series_of' = "history"
            /\ IF point # {}
               THEN /\ result' = point
                    /\ pc' = "done"
               ELSE /\ result' = result
                    /\ pc' = "fallback"
    /\ UNCHANGED <<cmc_api_key, price_cache, last_request_time, now,
                   pair_data, target_time, token_symbol, timeframe,
                   current_time, cmc_id>>
    /\ UNCHANGED nonResolverVars

\* Lines 363-371.
Fallback ==
    /\ pc = "fallback"
    /\ LET cur == CurrentPoint(pair_data, target_time)
       IN  /\ log' = log \o <<"current">>
           /\ IF cur.raised
              THEN /\ result' = result
                   /\ pc' = "raised"
              ELSE /\ result' = {cur.point}
                   /\ pc' = "done"
    /\ UNCHANGED <<cmc_api_key, price_cache, last_request_time, now,
                   pair_data, target_time, token_symbol, timeframe,
                   current_time, cmc_id, series, series_of>>
    /\ UNCHANGED nonResolverVars

\* The caller takes the point (or the exception); the analyzer is ready for
\* the next call.
Return ==
    /\ pc \in {"done", "raised"}
    /\ pc' = "idle"
    /\ pair_data' = NoPair
    /\ target_time' = 0
    /\ token_symbol' = ""
    /\ timeframe' = ""
    /\ current_time' = 0
    /\ cmc_id' = 0
    /\ series' = <<>>
    /\ series_of' = "none"
    /\ log' = <<>>
    /\ result' = {}
    /\ UNCHANGED <<cmc_api_key, price_cache, last_request_time, now>>
    /\ UNCHANGED nonResolverVars

CallAny ==
    /\ pc = "idle"
    /\ \E pd \in PairContexts, tf \in Timeframes, tok \in Tokens : Call(pd, tf, tok)

--------------------------------------------------------------------------
(* Properties of get_price_at_time *)

Count(sq, e) == Cardinality({i \in DOMAIN sq : sq[i] = e})

\* The returned point's source ("none" while nothing is returned).
Source == IF result = {} THEN "none" ELSE (CHOOSE p \in result : TRUE).data_source
ThePoint == IF result = {} THEN NoPoint ELSE CHOOSE p \in result : TRUE

\* The place of an event in the cascade.
Rank(e) ==
    CASE e = "cmc_map"     -> 1
      [] e = "cmc_ohlcv"   -> 2
      [] e = "using_dex"   -> 3
      [] e = "dex_candles" -> 4
      [] e = "dex_history" -> 5
      [] e = "current"     -> 6
      [] OTHER             -> 0

CascadeEvents == {"cmc_map", "cmc_ohlcv", "using_dex", "dex_candles",
                  "dex_history", "current"}

\* C1, as the claim has it: whenever the current-price fallback is taken,
\* the DEXScreener client was asked exactly once before it (its lookup
\* starts with the candles request).
C1_DexBeforeFallback ==
    Count(log, "current") = 1 => Count(log, "dex_candles") = 1

\* C1, amended: within one call for a non-future target the providers are
\* tried in the order CoinMarketCap, DEXScreener, current price, each at
\* most once and each only after the previous one ended without data: once
\* CoinMarketCap gave the point, no DEXScreener step or request is in the
\* call; when the current-price fallback is taken, the DEXScreener step was
\* entered exactly once before it; it asked the candles and then the
\* history, once each, when the pair has an address and a chain, and asked
\* nothing when the pair lacks one of them.
C1_CascadeOrder ==
    /\ \A e \in CascadeEvents : Count(log, e) <= 1
    /\ \A i, j \in DOMAIN log :
         (i < j /\ Rank(log[i]) > 0 /\ Rank(log[j]) > 0)
            => Rank(log[i]) < Rank(log[j])
    /\ Source = "coinmarketcap" =>
         \A e \in {"using_dex", "dex_candles", "dex_history", "current"} :
            Count(log, e) = 0
    /\ Count(log, "using_dex") = 1 =>
         /\ cmc_api_key => Count(log, "cmc_map") = 1
         /\ Source # "coinmarketcap"
    /\ Count(log, "current") = 1 =>
         /\ Count(log, "using_dex") = 1
         /\ IF pair_data.pairAddress # "" /\ pair_data.chainId # ""
            THEN Count(log, "dex_candles") = 1 /\ Count(log, "dex_history") = 1
            ELSE Count(log, "dex_candles") = 0 /\ Count(log, "dex_history") = 0
    /\ Count(log, "dex_history") = 1 => Count(log, "dex_candles") = 1
    /\ Source \in {"dexscreener_candles", "dexscreener_historical"} =>
         Count(log, "current") = 0

\* A call that went through the whole cascade: CoinMarketCap was asked and
\* had no data, both DEXScreener endpoints were asked, the current price is
\* returned.
C1_Witness ==
    /\ pc = "done"
    /\ Source = "dexscreener_current"
    /\ log = <<"rate_limit", "cmc_map", "rate_limit", "cmc_ohlcv",
               "using_dex", "dex_candles", "dex_history", "current">>

\* C2: a call whose target is strictly later than the clock at the call
\* returns at once the future_date point with null price, native price,
\* liquidity and volume; no request was issued and the cache is untouched.
C2_FutureDate ==
    (pc # "idle" /\ target_time > current_time) =>
        /\ pc = "done"
        /\ Source = "future_date"
        /\ ThePoint.price_usd = NullV
        /\ ThePoint.price_native = NullV
        /\ ThePoint.liquidity_usd = NullV
        /\ ThePoint.volume_24h = NullV
        /\ ThePoint.timestamp = target_time * 1000
        /\ log = <<>>
        /\ price_cache = EmptyCache

C2_Witness ==
    /\ pc = "done"
    /\ timeframe = "post_30d"
    /\ target_time > current_time
    /\ Source = "future_date"

\* C3: for every pair and every upstream outcome the call returns a point
\* and never raises.
C3_NeverRaises == pc # "raised"

\* C4: a completed call for a non-future target has stored the point it
\* returns in the cache under (token, pair address, timeframe).
C4_FirstCallStores ==
    (pc = "done" /\ ~(target_time > current_time)) =>
        get_cached_price_data(price_cache, token_symbol,
                              pair_data.pairAddress, timeframe) = result

\* The time difference of a sample to the target, in milliseconds.
DiffOf(sample) == Abs(sample.timestamp.v - target_time * 1000)

WellFormed(sq) == \A i \in DOMAIN sq : sq[i].timestamp.t = "num"

\* Some sample of the series is within 12 hours of the target.
SomeWithin(sq) ==
    \E i \in DOMAIN sq : sq[i].timestamp.t = "num" /\ DiffOf(sq[i]) <= 43200000

\* Sample i of the series is the one the point was made of.
IsNearest(sq, i) ==
    /\ sq[i].timestamp.t = "num"
    /\ ThePoint.timestamp = sq[i].timestamp.v
    /\ DiffOf(sq[i]) <= 43200000
    /\ \A j \in DOMAIN sq : DiffOf(sq[j]) >= DiffOf(sq[i])

\* C10: a point of the candles step or of the history step is made of the
\* sample with the smallest time difference to the target over the whole
\* series, and that difference is at most 12 hours; a series with no sample
\* within 12 hours yields no point and the next step is taken; a well-formed
\* series with a sample within 12 hours (the boundary included) yields the
\* point, for the candles provided the pair's liquidity and volume can be
\* read.
C10_NearestMatch ==
    /\ Source = "dexscreener_candles" =>
         /\ series_of = "candles"
         /\ \E i \in DOMAIN series :
              IsNearest(series, i) /\ ThePoint.price_usd = series[i].close
    /\ Source = "dexscreener_historical" =>
         /\ series_of = "history"
         /\ \E i \in DOMAIN series :
              IsNearest(series, i) /\ ThePoint.price_usd = series[i].priceUsd
    /\ (series_of = "candles" /\ ~SomeWithin(series)) => pc = "dex_history"
    /\ (series_of = "history" /\ ~SomeWithin(series)) =>
         /\ pc \in {"fallback", "done", "raised"}
         /\ Source \in {"none", "dexscreener_current"}
    /\ (series_of = "candles" /\ WellFormed(series) /\ SomeWithin(series)
            /\ pair_data.volume.t # "null") =>
         Source = "dexscreener_candles"
    /\ (series_of = "history" /\ WellFormed(series) /\ SomeWithin(series)) =>
         Source = "dexscreener_historical"

\* The sample at exactly 12 hours was accepted although it came second in
\* its series, after a farther one.
C10_Witness ==
    /\ pc = "done"
    /\ Source = "dexscreener_candles"
    /\ Len(series) = 2
    /\ DiffOf(series[1]) = 72000000
    /\ ThePoint.timestamp = target_time * 1000 + 43200000

\* The upstream requests of a call.
Requests == {"cmc_map", "cmc_ohlcv", "dex_candles", "dex_history"}

\* C11: every upstream request of a call comes right after a completed
\* rate_limit wait of the same call.
C11_TurnBeforeRequest ==
    \A i \in DOMAIN log :
        log[i] \in Requests => (i > 1 /\ log[i - 1] = "rate_limit")

\* C15: without a CoinMarketCap key no CoinMarketCap operation issues a
\* request (nor waits for a turn), none yields data or raises, and every
\* resolution that gets past the future check goes on to the DEXScreener
\* step.
C15_NoKeyNoCmc ==
    ~cmc_api_key =>
        /\ Count(log, "rate_limit") = 0
        /\ Count(log, "cmc_map") = 0
        /\ Count(log, "cmc_ohlcv") = 0
        /\ pc # "cmc_hist"
        /\ Source # "coinmarketcap"
        /\ (\/ pc \in {"dex_history", "fallback"}
            \/ pc \in {"done", "raised"} /\ Source # "future_date")
              => Count(log, "using_dex") = 1

\* A call without key that went straight to DEXScreener and got its point
\* from the candles.
C15_Witness ==
    /\ ~cmc_api_key
    /\ pc = "done"
    /\ Source = "dexscreener_candles"
    /\ log = <<"using_dex", "dex_candles">>

\* The value under a dict-valued entry of the pair, None when it is missing.
PairValue(d) == IF d.t = "obj" THEN Get(d.x) ELSE NullV

\* The history series gave no point: it is empty or missing, has a sample
\* without timestamp, or has no sample within 12 hours.
HistoryGaveNothing ==
    series = <<>> \/ ~WellFormed(series) \/ ~SomeWithin(series)

\* C16: a point of source dexscreener_current is returned only when no
\* earlier step of the call yielded a point (as long as the cascade goes on
\* nothing was yielded; the history series read last gave nothing); its
\* timestamp is the target time and its price, native price, liquidity and
\* volume are the values of pair_data.
C16_CurrentIsLast ==
    /\ pc \in {"cmc_search", "cmc_hist", "dex", "dex_history", "fallback"}
         => result = {}
    /\ Source = "dexscreener_current" =>
         /\ pc = "done"
         /\ log[Len(log)] = "current"
         /\ Count(log, "current") = 1
         /\ IF HasPairAndChain(pair_data)
            THEN /\ Count(log, "dex_candles") = 1
                 /\ Count(log, "dex_history") = 1
                 /\ series_of = "history"
                 /\ HistoryGaveNothing
            ELSE series_of = "none"
         /\ ThePoint.timestamp = target_time * 1000
         /\ ThePoint.price_usd = Get(pair_data.priceUsd)
         /\ ThePoint.price_native = Get(pair_data.priceNative)
         /\ ThePoint.liquidity_usd = PairValue(pair_data.liquidity)
         /\ ThePoint.volume_24h = PairValue(pair_data.volume)

\* The current point of the complete pair, returned after a history series
\* of two samples, none of them within 12 hours.
C16_Witness ==
    /\ pc = "done"
    /\ Source = "dexscreener_current"
    /\ pair_data = PairBase
    /\ series_of = "history"
    /\ Len(series) = 2
    /\ ThePoint.price_usd = Num(3)
    /\ ThePoint.liquidity_usd = Num(10)
    /\ ThePoint.volume_24h = Num(7)

\* The sources a point may name.
Sources == {"coinmarketcap", "dexscreener_candles", "dexscreener_historical",
            "dexscreener_current", "future_date"}

\* C17: every returned point has the fields price_usd, price_native,
\* liquidity_usd, volume_24h, timestamp and source, and its source is one
\* of the five.
C17_OneShape ==
    result # {} =>
        /\ ThePoint.price_usd # AbsentV
        /\ ThePoint.price_native # AbsentV
        /\ ThePoint.liquidity_usd # AbsentV
        /\ ThePoint.volume_24h # AbsentV
        /\ ThePoint.data_source \in Sources

C24_TimestampNearTarget ==
    result # {} =>
        /\ Abs(ThePoint.timestamp - target_time * 1000) <= 12 * 3600 * 1000
        /\ Source \in {"coinmarketcap", "dexscreener_current", "future_date"}
              => ThePoint.timestamp = target_time * 1000
        /\ Source = "dexscreener_candles" =>
              /\ series_of = "candles"
              /\ \E i \in DOMAIN series :
                    /\ series[i].timestamp = Num(ThePoint.timestamp)
                    /\ Get(series[i].close) = ThePoint.price_usd
        /\ Source = "dexscreener_historical" =>
              /\ series_of = "history"
              /\ \E i \in DOMAIN series :
                    /\ series[i].timestamp = Num(ThePoint.timestamp)
                    /\ Get(series[i].priceUsd) = ThePoint.price_usd

\* A history point whose sample lies exactly 12 hours after the target,
\* taken from a series that also has a sample 12 hours and 1 ms after it.
C24_Witness ==
    /\ pc = "done"
    /\ Source = "dexscreener_historical"
    /\ ThePoint.timestamp = target_time * 1000 + 43200000
    /\ \E i \in DOMAIN series :
          series[i].timestamp = Num(target_time * 1000 + 43200001)

--------------------------------------------------------------------------
(* rate_limit called by concurrent tasks (lines 49-55).                    *)
(* Here now and last_request_time count ticks, TicksPerSecond to a second. *)

\* Bounds: the clock's resolution, how long the clock runs after the first
\* interval, how many tasks call rate_limit.
TicksPerSecond == 2
MaxTicks == 4
NumTasks == 2

Tasks == 1..NumTasks

\* self.min_request_interval, in ticks.
Interval == MinRequestInterval * TicksPerSecond

\* The last two returns of rate_limit, the latest last.
Granted(g, t) == IF Len(g) < 2 THEN Append(g, t) ELSE <<g[2], t>>

NoTask ==
    /\ rl_pc = [t \in Tasks |-> "idle"]
    /\ rl_wake = [t \in Tasks |-> 0]
    /\ grants = <<>>

\* The analyzer was constructed at time.time() = 0 and the first call comes
\* an interval later or more.
InitRate ==
    /\ cmc_api_key = TRUE
    /\ price_cache = EmptyCache
    /\ last_request_time = 0
    /\ now = Interval
    /\ NoCall
    /\ NoTask

\* Lines 51-55 up to the first await: the task reads the clock and
\* last_request_time; it either starts to sleep, or, with nothing to wait
\* for, sets last_request_time and returns without ever yielding.
RlCall(task) ==
    /\ rl_pc[task] = "idle"
    /\ LET d == SleepFor(now, last_request_time, Interval)
       IN  IF d > 0
           THEN /\ rl_pc' = [rl_pc EXCEPT ![task] = "sleeping"]
                /\ rl_wake' = [rl_wake EXCEPT ![task] = now + d]
                /\ UNCHANGED <<last_request_time, grants>>
           ELSE /\ last_request_time' = now
                /\ grants' = Granted(grants, now)
                /\ UNCHANGED <<rl_pc, rl_wake>>
    /\ UNCHANGED now
    /\ UNCHANGED nonRateVars

\* Line 55 after the sleep: the task is resumed, no sooner than asked,
\* sets last_request_time and returns.
RlWake(task) ==
    /\ rl_pc[task] = "sleeping"
    /\ now >= rl_wake[task]
    /\ last_request_time' = now
    /\ grants' = Granted(grants, now)
    /\ rl_pc' = [rl_pc EXCEPT ![task] = "idle"]
    /\ rl_wake' = [rl_wake EXCEPT ![task] = 0]
    /\ UNCHANGED now
    /\ UNCHANGED nonRateVars

\* Time passes.
RlTick ==
    /\ now < Interval + MaxTicks
    /\ now' = now + 1
    /\ UNCHANGED <<last_request_time, rl_pc, rl_wake, grants>>
    /\ UNCHANGED nonRateVars

RlCallAny == \E task \in Tasks : RlCall(task)
RlWakeAny == \E task \in Tasks : RlWake(task)

--------------------------------------------------------------------------
(* get_best_token_pair (lines 197-229) with search_token (lines 159-181) *)

\* Bound: the longest list of pairs a search response carries.
MaxPairs == 3

PairOf(address, created, usd) ==
    [PairBase EXCEPT !.pairAddress = address, !.pairCreatedAt = created,
                     !.liquidity = Dict(Num(usd))]

\* The pairs a search may return, by creation time against TweetTime: 2 h
\* before, 30 min before, exactly 1 h after, 1 h and 1 ms after, 2 h after,
\* and one without pairCreatedAt; then one of 1 h before with the liquidity
\* of p2 and one of 3 h after with the liquidity of p5.
PairSamples ==
    { PairOf("p1", Num((TweetTime - 7200) * 1000), 500),
      PairOf("p2", Num((TweetTime - 1800) * 1000), 10000),
      PairOf("p3", Num((TweetTime + 3600) * 1000), 20000),
      PairOf("p4", Num((TweetTime + 3600) * 1000 + 1), 30000),
      PairOf("p5", Num((TweetTime + 7200) * 1000), 1000000),
      PairOf("p6", AbsentV, 40000),
      PairOf("p7", Num((TweetTime - 3600) * 1000), 10000),
      PairOf("p8", Num((TweetTime + 10800) * 1000), 1000000) }

\* The reference times of a selection.
ReferenceTimes == {TweetTime, TweetTime + 3600}

SearchResponses ==
    FailedResponses \cup
    { Response(FALSE, 200, TRUE, ps) : ps \in SeqsUpTo(PairSamples, MaxPairs) }

\* Lines 173 and 226: float(x.get('liquidity', {}).get('usd', 0) or 0).
LiquidityKey(pair) ==
    LET usd == NestedGet(pair.liquidity)
    IN  IF usd.val.t = "num" THEN usd.val.v ELSE 0

\* Line 219: int(x.get('pairCreatedAt', 0)).
CreatedKey(pair) ==
    IF pair.pairCreatedAt.t = "num" THEN pair.pairCreatedAt.v ELSE 0

\* sq with x put after every element whose liquidity is not smaller: one
\* step of a stable sort by falling liquidity.
RECURSIVE InsertByLiquidity(_, _)
InsertByLiquidity(sq, x) ==
    IF sq = <<>> THEN <<x>>
    ELSE IF LiquidityKey(sq[1]) >= LiquidityKey(x)
    THEN <<sq[1]>> \o InsertByLiquidity(Tail(sq), x)
    ELSE <<x>> \o sq

\* Lines 171-175: sorted(..., reverse=True), stable.
RECURSIVE SortByLiquidity(_)
SortByLiquidity(sq) ==
    IF sq = <<>> THEN <<>>
    ELSE InsertByLiquidity(SortByLiquidity(SubSeq(sq, 1, Len(sq) - 1)), sq[Len(sq)])

RECURSIVE InsertByCreated(_, _)
InsertByCreated(sq, x) ==
    IF sq = <<>> THEN <<x>>
    ELSE IF CreatedKey(sq[1]) <= CreatedKey(x)
    THEN <<sq[1]>> \o InsertByCreated(Tail(sq), x)
    ELSE <<x>> \o sq

\* Lines 217-221: sorted by rising creation time, stable.
RECURSIVE SortByCreated(_)
SortByCreated(sq) ==
    IF sq = <<>> THEN <<>>
    ELSE InsertByCreated(SortByCreated(SubSeq(sq, 1, Len(sq) - 1)), sq[Len(sq)])

\* search_token, after the request: the pairs by falling liquidity, or []
\* (a liquidity of null raises in the sort key, which is caught).
search_token(resp) ==
    IF ~resp.exc /\ resp.status = 200 /\ resp.isdict /\ resp.data # <<>>
       /\ \A i \in DOMAIN resp.data : ~NestedGet(resp.data[i].liquidity).raised
    THEN SortByLiquidity(resp.data)
    ELSE <<>>

\* The test of line 212 with < for <=.
IsValidPairStrict(pair, tweet_time) ==
    /\ pair.pairCreatedAt.t = "num"
    /\ pair.pairCreatedAt.v < (tweet_time + 3600) * 1000
\* Lines 209-212: the pair counts as created before or around the tweet.
IsValidPair(pair, tweet_time) ==
    /\ pair.pairCreatedAt.t = "num"
    /\ pair.pairCreatedAt.v <= (tweet_time + 3600) * 1000

\* Lines 206-213.
RECURSIVE ValidPairs(_, _)
ValidPairs(pairs, tweet_time) ==
    IF pairs = <<>> THEN <<>>
    ELSE (IF IsValidPair(pairs[1], tweet_time) THEN <<pairs[1]>> ELSE <<>>)
         \o ValidPairs(Tail(pairs), tweet_time)

\* Lines 224-227: max(..., key=liquidity) over a non-empty list, which is
\* the first of the elements with the highest liquidity.
RECURSIVE MaxFrom(_, _, _)
MaxFrom(sq, i, best) ==
    IF i > Len(sq) THEN best
    ELSE IF LiquidityKey(sq[i]) > LiquidityKey(best)
    THEN MaxFrom(sq, i + 1, sq[i])
    ELSE MaxFrom(sq, i + 1, best)

MaxByLiquidity(sq) == MaxFrom(sq, 2, sq[1])

\* The selection without its guard of lines 201-203: an empty search is
\* answered with a pair all the same.
BestOfPlaceholder(pairs, tweet_time) ==
    IF pairs = <<>> THEN {NoPair}
    ELSE LET valid == ValidPairs(pairs, tweet_time)
             valid_pairs == IF valid = <<>> THEN SortByCreated(pairs) ELSE valid
         IN  { MaxByLiquidity(valid_pairs) }
\* Lines 201-229, given what search_token returned: the best pair, as a
\* set; empty for None.
BestOf(pairs, tweet_time) ==
    IF pairs = <<>> THEN {}
    ELSE LET valid == ValidPairs(pairs, tweet_time)
             valid_pairs == IF valid = <<>> THEN SortByCreated(pairs) ELSE valid
         IN  { MaxByLiquidity(valid_pairs) }

NoSelection ==
    /\ bp_pc = "idle"
    /\ bp_resp = <<>>
    /\ bp_pairs = <<>>
    /\ bp_tweet_time = 0
    /\ bp_best = {}

InitPair ==
    /\ cmc_api_key = TRUE
    /\ price_cache = EmptyCache
    /\ last_request_time = EpochZero
    /\ now = Now0
    /\ NoCall
    /\ NoSelection

\* get_best_token_pair, with the response the search got.
get_best_token_pair(resp, tweet_time) ==
    /\ bp_pc = "idle"
    /\ bp_pc' = "done"
    /\ bp_resp' = resp
    /\ bp_pairs' = resp.data
    /\ bp_tweet_time' = tweet_time
    /\ bp_best' = BestOf(search_token(resp), tweet_time)
    /\ UNCHANGED nonPairVars

SelectAny ==
    /\ bp_pc = "idle"
    /\ \E resp \in SearchResponses, t \in ReferenceTimes :
            get_best_token_pair(resp, t)

\* The caller takes the pair.
SelectReturn ==
    /\ bp_pc = "done"
    /\ bp_pc' = "idle"
    /\ bp_resp' = <<>>
    /\ bp_pairs' = <<>>
    /\ bp_tweet_time' = 0
    /\ bp_best' = {}
    /\ UNCHANGED nonPairVars

--------------------------------------------------------------------------
(* analyze_tweet_impact (lines 373-502): the price points of the four      *)
(* timeframes and the price changes of the record                          *)

LaterTimeframes == {"post_24h", "post_7d", "post_30d"}

\* The clock when the analysis of the tweet starts: just before the tweet,
\* 1 h, exactly 24 h, 8 days and 31 days after it.
AnalysisTimes ==
    { TweetTime - 1, TweetTime + 3600, TweetTime + 86400,
      TweetTime + 8 * 86400, TweetTime + 31 * 86400 }

\* The prices an upstream reports: none, zero, positive.
PriceVals == { NullV, Num(0), Num(1), Num(2), Num(4) }

\* What get_price_at_time returns for a target that is not in the future:
\* some price from one of the providers (for the price changes the source
\* counts only as future_date or not).
ResolvedPoints(target) ==
    { Point(p, NullV, NullV, NullV, AbsentV, target * 1000, src) :
        p \in PriceVals, src \in {"coinmarketcap", "dexscreener_current"} }

\* Lines 412, 418 and 424: the point of a later timeframe still to come.
StubPoint(target) ==
    Point(NullV, AbsentV, AbsentV, AbsentV, AbsentV, target * 1000, "future_date")

\* Lines 408-427: the points a timeframe may get when the analysis starts
\* at instant t. The first mention is always resolved; a later timeframe
\* is resolved only when its target is not after t.
PointsFor(tf, t) ==
    LET target == TweetTime + TimeframeOffset(tf)
    IN  IF tf = "first_mention"
        THEN IF IsFuture(target, t) THEN {FuturePoint(target)}
                                    ELSE ResolvedPoints(target)
        ELSE IF target > t THEN {StubPoint(target)}
                           ELSE ResolvedPoints(target)

\* Lines 437-440: float(x or 0).
FloatOrZero(val) == IF val.t = "num" THEN val.v ELSE 0

\* One of lines 442-444, with 0 where the code has None.
PriceChangeOrZero(first_data, post_data) ==
    LET first_price == FloatOrZero(first_data.price_usd)
        post_price  == FloatOrZero(post_data.price_usd)
    IN  IF first_price > 0 /\ post_price > 0
           /\ post_data.data_source # "future_date"
        THEN Num(((post_price - first_price) * 100) \div first_price)
        ELSE Num(0)
\* One of lines 442-444. The prices of the model make the division exact.
PriceChange(first_data, post_data) ==
    LET first_price == FloatOrZero(first_data.price_usd)
        post_price  == FloatOrZero(post_data.price_usd)
    IN  IF first_price > 0 /\ post_price > 0
           /\ post_data.data_source # "future_date"
        THEN Num(((post_price - first_price) * 100) \div first_price)
        ELSE NullV

NoAnalysis ==
    /\ im_pc = "idle"
    /\ im_now = 0
    /\ im_points = [tf \in Timeframes |-> NoPoint]
    /\ im_changes = [tf \in LaterTimeframes |-> AbsentV]

InitImpact ==
    /\ cmc_api_key = TRUE
    /\ price_cache = EmptyCache
    /\ last_request_time = EpochZero
    /\ now = Now0
    /\ NoCall
    /\ NoAnalysis

\* analyze_tweet_impact for a tweet whose token has a pair, started at
\* instant t, with the points the four resolutions gave.
analyze_tweet_impact(t, points) ==
    /\ im_pc = "idle"
    /\ im_pc' = "done"
    /\ im_now' = t
    /\ im_points' = points
    /\ im_changes' = [tf \in LaterTimeframes |->
                        PriceChange(points["first_mention"], points[tf])]
    /\ UNCHANGED nonImpactVars

AnalyzeAny ==
    /\ im_pc = "idle"
    /\ \E t \in AnalysisTimes :
        \E p0 \in PointsFor("first_mention", t), p1 \in PointsFor("post_24h", t),
           p2 \in PointsFor("post_7d", t), p3 \in PointsFor("post_30d", t) :
            analyze_tweet_impact(t,
                [tf \in Timeframes |->
                    CASE tf = "first_mention" -> p0
                      [] tf = "post_24h"      -> p1
                      [] tf = "post_7d"       -> p2
                      [] tf = "post_30d"      -> p3])

\* The caller takes the record.
AnalyzeReturn ==
    /\ im_pc = "done"
    /\ im_pc' = "idle"
    /\ im_now' = 0
    /\ im_points' = [tf \in Timeframes |-> NoPoint]
    /\ im_changes' = [tf \in LaterTimeframes |-> AbsentV]
    /\ UNCHANGED nonImpactVars

--------------------------------------------------------------------------
(* Properties of rate_limit *)

\* C5: under any interleaving of the tasks, two returns of rate_limit that
\* follow each other are at least min_request_interval apart.
C5_TurnsSpaced ==
    Len(grants) = 2 => grants[2] - grants[1] >= MinRequestInterval * TicksPerSecond

\* The provider a task calls rate_limit for: the callers of rate_limit are
\* the CoinMarketCap operations (lines 70, 93, 132) and no other.
ProviderOf(task) == "coinmarketcap"

\* C13: the turns of one provider are serialized: of two turns granted to
\* callers of the same provider one comes strictly after the other. (A
\* caller for another provider would have to be left alone by these turns;
\* rate_limit has no such caller.)
C13_TurnsSerialized ==
    (Len(grants) = 2 /\ \A t1, t2 \in Tasks : ProviderOf(t1) = ProviderOf(t2))
        => grants[1] < grants[2]

--------------------------------------------------------------------------
(* Properties of analyze_tweet_impact *)

BasePrice == im_points["first_mention"].price_usd

\* C6: a price change is unavailable exactly when the base price is null or
\* not positive, the later price is null, or the later source is
\* future_date; in every other case, a later price of 0 included, it is
\* (later - base) / base * 100.
C6_ChangeExactly ==
    im_pc = "done" =>
        \A tf \in LaterTimeframes :
            LET later == im_points[tf]
                unavailable ==
                    \/ BasePrice.t # "num"
                    \/ BasePrice.v <= 0
                    \/ later.price_usd.t # "num"
                    \/ later.data_source = "future_date"
            IN  IF unavailable
                THEN im_changes[tf] = NullV
                ELSE im_changes[tf] =
                        Num(((later.price_usd.v - BasePrice.v) * 100) \div BasePrice.v)

\* C7: in every record a price change is a number only if the base price
\* and the later price are both non-null, the later source is not
\* future_date and the base price is strictly positive; otherwise it is
\* null.
C7_ChangeOnlyWhenDefined ==
    im_pc = "done" =>
        \A tf \in LaterTimeframes :
            /\ im_changes[tf].t \in {"num", "null"}
            /\ im_changes[tf].t = "num" =>
                 /\ BasePrice.t = "num"
                 /\ BasePrice.v > 0
                 /\ im_points[tf].price_usd.t = "num"
                 /\ im_points[tf].data_source # "future_date"

\* A record with a change that is a number (2 -> 1: -50), a change that is
\* null because the later price is null, and a change that is null because
\* the target is still to come.
C7_Witness ==
    /\ im_pc = "done"
    /\ BasePrice = Num(2)
    /\ im_points["post_24h"].price_usd = Num(1)
    /\ im_changes["post_24h"] = Num(0 - 50)
    /\ im_points["post_7d"].price_usd = NullV
    /\ im_changes["post_7d"] = NullV
    /\ im_points["post_30d"].data_source = "future_date"
    /\ im_changes["post_30d"] = NullV

--------------------------------------------------------------------------
(* Properties of get_best_token_pair *)

\* The pair was created at or before the reference time plus one hour.
CreatedInTime(pair) ==
    /\ pair.pairCreatedAt.t = "num"
    /\ pair.pairCreatedAt.v <= (bp_tweet_time + 3600) * 1000

UsdOf(pair) == IF pair.liquidity.x.t = "num" THEN pair.liquidity.x.v ELSE 0

\* C8: whenever a returned pair was created at or before the reference
\* time plus one hour, the selected pair is one of those pairs and no pair
\* of them has a higher USD liquidity.
C8_BestAmongValid ==
    (bp_pc = "done" /\ \E i \in DOMAIN bp_pairs : CreatedInTime(bp_pairs[i])) =>
        \E i \in DOMAIN bp_pairs :
            /\ bp_best = {bp_pairs[i]}
            /\ CreatedInTime(bp_pairs[i])
            /\ \A j \in DOMAIN bp_pairs :
                 CreatedInTime(bp_pairs[j]) => UsdOf(bp_pairs[j]) <= UsdOf(bp_pairs[i])

\* The pairs created 2 h before (liquidity 500), 30 min before (10000) and
\* 2 h after the reference time (1000000): the one of 30 min before is
\* selected.
C8_Witness ==
    /\ bp_pc = "done"
    /\ bp_tweet_time = TweetTime
    /\ Len(bp_pairs) = 3
    /\ bp_pairs[1].pairAddress = "p1"
    /\ bp_pairs[2].pairAddress = "p2"
    /\ bp_pairs[3].pairAddress = "p5"
    /\ \E b \in bp_best : b.pairAddress = "p2"

\* C9: when pairs exist (each with a creation time) and none was created at
\* or before the reference time plus one hour, the selected pair is the
\* oldest one.
C9_FallbackOldest ==
    (/\ bp_pc = "done"
     /\ bp_pairs # <<>>
     /\ \A i \in DOMAIN bp_pairs :
          bp_pairs[i].pairCreatedAt.t = "num" /\ ~CreatedInTime(bp_pairs[i])) =>
        \E b \in bp_best :
            \A j \in DOMAIN bp_pairs : b.pairCreatedAt.v <= bp_pairs[j].pairCreatedAt.v

\* C18: when the search yields no pairs (an empty result, a non-200
\* status, a transport exception, a malformed body), get_best_token_pair
\* returns None.
C18_NoPairsAbsent ==
    (/\ bp_pc = "done"
     /\ \/ bp_resp.exc
        \/ bp_resp.status # 200
        \/ ~bp_resp.isdict
        \/ bp_resp.data = <<>>) => bp_best = {}

\* A selection whose search got status 500 and that returned None.
C18_Witness ==
    /\ bp_pc = "done"
    /\ ~bp_resp.exc
    /\ bp_resp.status = 500
    /\ bp_best = {}

\* The candidate set of a selection, as positions of the provider's list:
\* the pairs created in time, or all the pairs when there is none.
Candidates ==
    IF \E i \in DOMAIN bp_pairs : CreatedInTime(bp_pairs[i])
    THEN {i \in DOMAIN bp_pairs : CreatedInTime(bp_pairs[i])}
    ELSE DOMAIN bp_pairs

\* The candidates of the highest USD liquidity.
TopCandidates ==
    {i \in Candidates : \A j \in Candidates : UsdOf(bp_pairs[j]) <= UsdOf(bp_pairs[i])}

\* C21: when several pairs of the candidate set (the qualifying pairs, or
\* all the pairs in the fallback) share the highest USD liquidity, the pair
\* selected is the one of them that comes first in the provider's list.
C21_TieFirstEncountered ==
    (/\ bp_pc = "done"
     /\ bp_best # {}
     /\ Cardinality(TopCandidates) > 1) =>
        \E i \in TopCandidates :
            /\ \A j \in TopCandidates : i <= j
            /\ bp_best = {bp_pairs[i]}

--------------------------------------------------------------------------
(* The cache functions (lines 183-195), called on their own *)

\* Bound: how many stores are made in all.
MaxStores == 3

\* Four triples (token, pair address, timeframe): the last three differ
\* from the first in exactly one component each.
Triple(token, pair_address, tf) ==
    [token |-> token, pair_address |-> pair_address, timeframe |-> tf]
Triples ==
    { Triple("PEPE", "0xpair", "first_mention"),
      Triple("PEPE", "0xpair", "post_24h"),
      Triple("PEPE", "0xother", "first_mention"),
      Triple("DOGE", "0xpair", "first_mention") }

\* The points to store.
CachePoints ==
    { Point(Num(1), AbsentV, AbsentV, Num(5), Num(6), TweetTime * 1000,
            "coinmarketcap"),
      Point(Num(0), Num(1), NullV, NullV, AbsentV, TweetTime * 1000,
            "dexscreener_current") }

\* The stores made so far, one element per store.
StoresMade ==
    UNION { {<<tr, i>> : i \in 1..Len(ca_stored[tr])} : tr \in DOMAIN ca_stored }

InitCache ==
    /\ ca_stored = [tr \in Triples |-> <<>>]
    /\ ca_triple = <<>>
    /\ ca_found = {}

\* store_price_data(token, pair_address, timeframe, price_data).
CacheStore(tr, price_data) ==
    /\ Cardinality(StoresMade) < MaxStores
    /\ price_cache' = store_price_data(price_cache, tr.token, tr.pair_address,
                                       tr.timeframe, price_data)
    /\ ca_stored' = [ca_stored EXCEPT ![tr] = Append(@, price_data)]
    /\ UNCHANGED <<ca_triple, ca_found>>
    /\ UNCHANGED nonCacheVars

\* get_cached_price_data(token, pair_address, timeframe).
CacheLookup(tr) ==
    /\ ca_triple' = tr
    /\ ca_found' = get_cached_price_data(price_cache, tr.token,
                                         tr.pair_address, tr.timeframe)
    /\ UNCHANGED <<price_cache, ca_stored>>
    /\ UNCHANGED nonCacheVars

CacheStoreAny == \E tr \in Triples, p \in CachePoints : CacheStore(tr, p)
CacheLookupAny == \E tr \in Triples : CacheLookup(tr)

\* The point last stored in a sequence of stores, as a set.
LastOf(stores) == IF stores = <<>> THEN {} ELSE {stores[Len(stores)]}

KeyTriples ==
    Triples \cup { Triple("PEPE_X", "0xpair", "post_24h"),
                   Triple("PEPE", "X_0xpair", "post_24h") }

InitKeys ==
    /\ ca_stored = [tr \in KeyTriples |-> <<>>]
    /\ ca_triple = <<>>
    /\ ca_found = {}

KeyStoreAny == \E tr \in KeyTriples, p \in CachePoints : CacheStore(tr, p)
KeyLookupAny == \E tr \in KeyTriples : CacheLookup(tr)

\* C28: two triples that differ in a component never have the same key:
\* the triples stored so far have keys that differ from each other, and a
\* lookup of a triple nothing was stored for returns nothing.
C28_KeysDistinct ==
    /\ \A t1, t2 \in DOMAIN ca_stored :
         (t1 # t2 /\ ca_stored[t1] # <<>> /\ ca_stored[t2] # <<>>) =>
            get_cache_key(t1.token, t1.pair_address, t1.timeframe)
                # get_cache_key(t2.token, t2.pair_address, t2.timeframe)
    /\ (ca_triple # <<>> /\ ca_stored[ca_triple] = <<>>) => ca_found = {}

--------------------------------------------------------------------------
(* The provider-client operations, called on their own (lines 64-181) *)

ClientOps == {"search_cmc_token", "get_cmc_historical_price",
              "get_cmc_current_price", "search_token"}

\* No request was made.
NoResponse == Response(FALSE, 0, FALSE, <<>>)

\* The USD quote of the quotes/latest endpoint: price, volume_24h,
\* market_cap; or an entry without 'quote' (KeyError).
CmcLatest(ok, price) == [ok |-> ok, price |-> price, volume_24h |-> Num(5),
                         market_cap |-> Num(6)]
CmcLatestQuotes == { CmcLatest(TRUE, Num(2)), CmcLatest(TRUE, NullV),
                     CmcLatest(TRUE, AbsentV), CmcLatest(FALSE, AbsentV) }
CmcLatestResponses ==
    FailedResponses \cup { Response(FALSE, 200, TRUE, <<q>>) : q \in CmcLatestQuotes }

\* get_cmc_current_price, after the request at instant t: the point, as a
\* set.
get_cmc_current_price(resp, t) ==
    IF ~resp.exc /\ resp.status = 200 /\ resp.isdict /\ resp.data # <<>>
       /\ resp.data[1].ok
    THEN LET quote == resp.data[1]
         IN  { Point(Get(quote.price), AbsentV, AbsentV, Get(quote.volume_24h),
                     Get(quote.market_cap), t * 1000, "coinmarketcap") }
    ELSE {}

\* What an operation gave back: whether it raised, how many requests it
\* sent, and its value as a set (empty for None and for []).
Outcome(raised, requests, value) ==
    [raised |-> raised, requests |-> requests, value |-> value]

\* One of the three CoinMarketCap operations: the key check, rate_limit,
\* the request, and the value made of the response.
CmcOperation(op, responses) ==
    /\ cl_pc = "idle"
    /\ now - Now0 < MaxDrift
    /\ cl_pc' = "done"
    /\ cl_op' = op
    /\ IF ~cmc_api_key
       THEN /\ cl_resp' = NoResponse
            /\ cl_out' = Outcome(FALSE, 0, {})
            /\ UNCHANGED <<now, last_request_time>>
       ELSE \E resp \in responses :
            LET grant == RateLimit(now, last_request_time)
            IN  /\ now' = grant
                /\ last_request_time' = grant
                /\ cl_resp' = resp
                /\ cl_out' = Outcome(FALSE, 1,
                      CASE op = "search_cmc_token" ->
                             IF search_cmc_token(resp).found
                             THEN {search_cmc_token(resp).item} ELSE {}
                        [] op = "get_cmc_historical_price" ->
                             get_cmc_historical_price(resp, TweetTime)
                        [] op = "get_cmc_current_price" ->
                             get_cmc_current_price(resp, grant))
    /\ UNCHANGED nonClientVars

ClSearchCmcToken == CmcOperation("search_cmc_token", CmcMapResponses)
ClCmcHistorical == CmcOperation("get_cmc_historical_price", CmcOhlcvResponses)
ClCmcCurrent == CmcOperation("get_cmc_current_price", CmcLatestResponses)

\* search_token: no key, no rate_limit; the request and the sorted pairs.
ClSearchToken ==
    /\ cl_pc = "idle"
    /\ cl_pc' = "done"
    /\ cl_op' = "search_token"
    /\ \E resp \in SearchResponses :
        /\ cl_resp' = resp
        /\ cl_out' = Outcome(FALSE, 1,
              IF search_token(resp) = <<>> THEN {} ELSE {search_token(resp)})
    /\ UNCHANGED <<now, last_request_time>>
    /\ UNCHANGED nonClientVars

\* The caller takes the value.
ClReturn ==
    /\ cl_pc = "done"
    /\ cl_pc' = "idle"
    /\ cl_op' = ""
    /\ cl_resp' = <<>>
    /\ cl_out' = <<>>
    /\ UNCHANGED <<now, last_request_time>>
    /\ UNCHANGED nonClientVars

\* The upstream did not answer with a usable body: the transport raised,
\* the status is not 200, the body is no dict, or it has no data at all.
Degraded(resp) ==
    resp.exc \/ resp.status # 200 \/ ~resp.isdict \/ resp.data = <<>>

\* A 200 answer with data lacks a field the operation reads from it: the
\* quotes of the OHLCV entry or their close, the USD quote of the latest
\* entry or its price.
LacksField(op, resp) ==
    /\ ~Degraded(resp)
    /\ \/ op = "get_cmc_historical_price"
            /\ (~resp.data[1].ok \/ resp.data[1].close = AbsentV)
       \/ op = "get_cmc_current_price"
            /\ (~resp.data[1].ok \/ resp.data[1].price = AbsentV)

\* C14: no provider-client operation raises, and each returns absent (None
\* or []) when the key it needs is missing, the upstream is degraded, or a
\* 200 answer lacks a field the operation reads.
C14_FailSoft ==
    cl_pc = "done" =>
        /\ ~cl_out.raised
        /\ (\/ cl_op # "search_token" /\ ~cmc_api_key
            \/ Degraded(cl_resp)
            \/ LacksField(cl_op, cl_resp)) => cl_out.value = {}

--------------------------------------------------------------------------
(* The result record of a price point (lines 463-489), written by          *)
(* save_analysis (lines 527-533) and read back                             *)

\* A pair whose current price is 0 and that has no volume.
ZeroPair == [PairBase EXCEPT !.priceUsd = Num(0), !.volume = AbsentD]

\* isoformat() of an instant in UTC: the text carries the instant and the
\* offset "+00:00".
IsoFormat(ms) == [instant |-> ms, utcoffset |-> "+00:00"]

\* Lines 463-468 (and the like for the later timeframes): the six record
\* fields of one point; price_native, liquidity_usd and volume_24h are
\* read with .get.
RecordOf(point) ==
    [price_usd |-> point.price_usd,
     price_native |-> Get(point.price_native),
     liquidity_usd |-> Get(point.liquidity_usd),
     volume_24h |-> Get(point.volume_24h),
     timestamp |-> IsoFormat(point.timestamp),
     data_source |-> point.data_source]

NumericFields == {"price_usd", "price_native", "liquidity_usd", "volume_24h"}

\* JSON text is a sequence of characters; a string's content is one item.
Digits == <<"0", "1", "2", "3", "4", "5", "6", "7", "8", "9">>

RECURSIVE NatText(_)
NatText(n) ==
    IF n < 10 THEN <<Digits[n + 1]>>
    ELSE NatText(n \div 10) \o <<Digits[(n % 10) + 1]>>

\* json.dump of None or of a number, with 0 written for None.
DumpValueOrZero(val) ==
    IF val.t = "null" THEN <<"0">>
    ELSE IF val.v < 0 THEN <<"-">> \o NatText(0 - val.v)
    ELSE NatText(val.v)
\* json.dump of None or of a number.
DumpValue(val) ==
    IF val.t = "null" THEN <<"n", "u", "l", "l">>
    ELSE IF val.v < 0 THEN <<"-">> \o NatText(0 - val.v)
    ELSE NatText(val.v)

\* json.dump of a string.
DumpString(str) == <<"\"", str, "\"">>

DigitValue(c) == CHOOSE d \in 0..9 : Digits[d + 1] = c

RECURSIVE NatValue(_, _, _)
NatValue(text, i, acc) ==
    IF i > Len(text) THEN acc
    ELSE NatValue(text, i + 1, acc * 10 + DigitValue(text[i]))

\* json.load of null or of a number.
LoadValue(text) ==
    IF text = <<"n", "u", "l", "l">> THEN NullV
    ELSE IF text[1] = "-" THEN Num(0 - NatValue(text, 2, 0))
    ELSE Num(NatValue(text, 1, 0))

\* json.load of a string.
LoadString(text) == text[2]

\* The record of the returned point is built.
WriteRecord ==
    /\ pc = "done"
    /\ sv_pc = "none"
    /\ sv_pc' = "recorded"
    /\ sv_record' = RecordOf(ThePoint)
    /\ UNCHANGED <<sv_file, sv_parsed>>
    /\ UNCHANGED <<resolverVars, nonRecordVars>>

\* save_analysis: json.dump of the record.
SaveAnalysis ==
    /\ sv_pc = "recorded"
    /\ sv_pc' = "saved"
    /\ sv_file' = [f \in DOMAIN sv_record |->
                     IF f \in NumericFields THEN DumpValue(sv_record[f])
                                            ELSE DumpString(sv_record[f])]
    /\ UNCHANGED <<sv_record, sv_parsed>>
    /\ UNCHANGED <<resolverVars, nonRecordVars>>

\* The output file is parsed.
LoadAnalysis ==
    /\ sv_pc = "saved"
    /\ sv_pc' = "loaded"
    /\ sv_parsed' = [f \in DOMAIN sv_file |->
                       IF f \in NumericFields THEN LoadValue(sv_file[f])
                                              ELSE LoadString(sv_file[f])]
    /\ UNCHANGED <<sv_record, sv_file>>
    /\ UNCHANGED <<resolverVars, nonRecordVars>>

\* The call is over (its record read back, or the call raised); the
\* analyzer is ready for the next one.
RecordReturn ==
    /\ sv_pc = "loaded" \/ pc = "raised"
    /\ pc' = "idle"
    /\ pair_data' = NoPair
    /\ target_time' = 0
    /\ token_symbol' = ""
    /\ timeframe' = ""
    /\ current_time' = 0
    /\ cmc_id' = 0
    /\ series' = <<>>
    /\ series_of' = "none"
    /\ log' = <<>>
    /\ result' = {}
    /\ sv_pc' = "none"
    /\ sv_record' = <<>>
    /\ sv_file' = <<>>
    /\ sv_parsed' = <<>>
    /\ UNCHANGED <<cmc_api_key, price_cache, last_request_time, now>>
    /\ UNCHANGED nonRecordVars

\* The pairs and timeframes whose points are recorded: the pair of price
\* 0 among them, and one timeframe in the past and one in the future.
RecordPairs == (PairContexts \ {[PairBase EXCEPT !.chainId = ""]}) \cup {ZeroPair}
RecordTimeframes == {"first_mention", "post_30d"}

\* A call for one of the pairs.
RecordCallAny ==
    /\ pc = "idle"
    /\ \E pd \in RecordPairs, tf \in RecordTimeframes, tok \in Tokens :
            Call(pd, tf, tok)

--------------------------------------------------------------------------
(* get_price_at_time (lines 253-371) called by concurrent tasks for the    *)
(* same token and pair. A task runs from one await to the next; a request  *)
(* and the reading of its response touch nothing the tasks share, and are  *)
(* one step.                                                               *)

\* The pair and the timeframes the tasks resolve.
FlightPair == PairBase
FlightTimeframes == {"first_mention", "post_24h", "post_30d"}

FlightTarget(task) == TweetTime + TimeframeOffset(fl_tf[task])

Later(a, b) == IF a > b THEN a ELSE b

InitFlight ==
    /\ fl_pc = [t \in Tasks |-> "idle"]
    /\ fl_tf = [t \in Tasks |-> ""]
    /\ fl_wake = [t \in Tasks |-> 0]
    /\ fl_result = [t \in Tasks |-> {}]
    /\ fl_log = [t \in Tasks |-> <<>>]

\* Lines 253-266: the call and its future check.
FlCall(task, tf) ==
    /\ fl_pc[task] = "idle"
    /\ now - Now0 < MaxDrift
    /\ fl_tf' = [fl_tf EXCEPT ![task] = tf]
    /\ IF IsFuture(TweetTime + TimeframeOffset(tf), now)
       THEN /\ fl_result' = [fl_result EXCEPT ![task] =
                                {FuturePoint(TweetTime + TimeframeOffset(tf))}]
            /\ fl_pc' = [fl_pc EXCEPT ![task] = "done"]
       ELSE /\ fl_result' = fl_result
            /\ fl_pc' = [fl_pc EXCEPT ![task] = "cmc_search"]
    /\ UNCHANGED <<fl_wake, fl_log, now, last_request_time>>
    /\ UNCHANGED nonFlightVars

\* rate_limit returns at instant t (line 55) and the CoinMarketCap request
\* of the task's step is sent and answered: the map (lines 71-85, then
\* lines 271-273) or the OHLCV history (lines 94-124, then lines 276-278).
FlCmcRequest(task, t) ==
    /\ now' = t
    /\ last_request_time' = t
    /\ IF fl_pc[task] \in {"cmc_search", "cmc_search_sleep"}
       THEN \E resp \in CmcMapResponses :
            /\ fl_log' = [fl_log EXCEPT ![task] = Append(@, "cmc_map")]
            /\ fl_pc' = [fl_pc EXCEPT ![task] =
                            IF CmcIdOf(search_cmc_token(resp)) # {}
                            THEN "cmc_hist" ELSE "dex"]
            /\ fl_result' = fl_result
       ELSE \E resp \in CmcOhlcvResponses :
            LET historical_data ==
                    get_cmc_historical_price(resp, FlightTarget(task))
            IN  /\ fl_log' = [fl_log EXCEPT ![task] = Append(@, "cmc_ohlcv")]
                /\ IF historical_data # {}
                   THEN /\ fl_result' = [fl_result EXCEPT ![task] = historical_data]
                        /\ fl_pc' = [fl_pc EXCEPT ![task] = "done"]
                   ELSE /\ fl_result' = fl_result
                        /\ fl_pc' = [fl_pc EXCEPT ![task] = "dex"]

\* A CoinMarketCap operation is called (line 270 or 275): without key it
\* returns None at once; otherwise rate_limit either starts to sleep or
\* returns without yielding, and then the request goes out.
FlCmcOperation(task) ==
    /\ fl_pc[task] \in {"cmc_search", "cmc_hist"}
    /\ IF ~cmc_api_key
       THEN /\ fl_pc' = [fl_pc EXCEPT ![task] = "dex"]
            /\ UNCHANGED <<fl_wake, fl_result, fl_log, now, last_request_time>>
       ELSE LET d == SleepFor(now, last_request_time, MinRequestInterval)
            IN  IF d > 0
                THEN /\ fl_pc' = [fl_pc EXCEPT ![task] =
                                    IF fl_pc[task] = "cmc_search"
                                    THEN "cmc_search_sleep" ELSE "cmc_hist_sleep"]
                     /\ fl_wake' = [fl_wake EXCEPT ![task] = now + d]
                     /\ UNCHANGED <<fl_result, fl_log, now, last_request_time>>
                ELSE /\ FlCmcRequest(task, now)
                     /\ UNCHANGED fl_wake
    /\ UNCHANGED fl_tf
    /\ UNCHANGED nonFlightVars

\* The sleep of line 54 is over, no sooner than asked.
FlWake(task) ==
    /\ fl_pc[task] \in {"cmc_search_sleep", "cmc_hist_sleep"}
    /\ FlCmcRequest(task, Later(now, fl_wake[task]))
    /\ fl_wake' = [fl_wake EXCEPT ![task] = 0]
    /\ UNCHANGED fl_tf
    /\ UNCHANGED nonFlightVars

\* Lines 283-328.
FlDexCandles(task) ==
    /\ fl_pc[task] = "dex"
    /\ IF HasPairAndChain(FlightPair)
       THEN \E resp \in CandleResponses(FlightTarget(task)) :
            LET point == CandlesPoint(resp, FlightPair, FlightTarget(task))
            IN  /\ fl_log' = [fl_log EXCEPT ![task] = Append(@, "dex_candles")]
                /\ IF point # {}
                   THEN /\ fl_result' = [fl_result EXCEPT ![task] = point]
                        /\ fl_pc' = [fl_pc EXCEPT ![task] = "done"]
                   ELSE /\ fl_result' = fl_result
                        /\ fl_pc' = [fl_pc EXCEPT ![task] = "dex_history"]
       ELSE /\ fl_pc' = [fl_pc EXCEPT ![task] = "fallback"]
            /\ UNCHANGED <<fl_result, fl_log>>
    /\ UNCHANGED <<fl_tf, fl_wake, now, last_request_time>>
    /\ UNCHANGED nonFlightVars

\* Lines 330-361.
FlDexHistory(task) ==
    /\ fl_pc[task] = "dex_history"
    /\ \E resp \in HistoryResponses(FlightTarget(task)) :
        LET point == HistoryPoint(resp, FlightTarget(task))
        IN  /\ fl_log' = [fl_log EXCEPT ![task] = Append(@, "dex_history")]
            /\ IF point # {}
               THEN /\ fl_result' = [fl_result EXCEPT ![task] = point]
                    /\ fl_pc' = [fl_pc EXCEPT ![task] = "done"]
               ELSE /\ fl_result' = fl_result
                    /\ fl_pc' = [fl_pc EXCEPT ![task] = "fallback"]
    /\ UNCHANGED <<fl_tf, fl_wake, now, last_request_time>>
    /\ UNCHANGED nonFlightVars

\* Lines 363-371.
FlFallback(task) ==
    /\ fl_pc[task] = "fallback"
    /\ LET cur == CurrentPoint(FlightPair, FlightTarget(task))
       IN  IF cur.raised
           THEN /\ fl_pc' = [fl_pc EXCEPT ![task] = "raised"]
                /\ fl_result' = fl_result
           ELSE /\ fl_pc' = [fl_pc EXCEPT ![task] = "done"]
                /\ fl_result' = [fl_result EXCEPT ![task] = {cur.point}]
    /\ UNCHANGED <<fl_tf, fl_wake, fl_log, now, last_request_time>>
    /\ UNCHANGED nonFlightVars

\* The task's caller takes the point.
FlReturn(task) ==
    /\ fl_pc[task] \in {"done", "raised"}
    /\ fl_pc' = [fl_pc EXCEPT ![task] = "idle"]
    /\ fl_tf' = [fl_tf EXCEPT ![task] = ""]
    /\ fl_result' = [fl_result EXCEPT ![task] = {}]
    /\ fl_log' = [fl_log EXCEPT ![task] = <<>>]
    /\ UNCHANGED <<fl_wake, now, last_request_time>>
    /\ UNCHANGED nonFlightVars

FlCallAny == \E task \in Tasks, tf \in FlightTimeframes : FlCall(task, tf)
FlCmcOperationAny == \E task \in Tasks : FlCmcOperation(task)
FlWakeAny == \E task \in Tasks : FlWake(task)
FlDexCandlesAny == \E task \in Tasks : FlDexCandles(task)
FlDexHistoryAny == \E task \in Tasks : FlDexHistory(task)
FlFallbackAny == \E task \in Tasks : FlFallback(task)
FlReturnAny == \E task \in Tasks : FlReturn(task)

\* C12: of the tasks that resolve the same (token, pair address,
\* timeframe) key at the same time, at most one issues upstream requests.
C12_SingleFlight ==
    \A t1, t2 \in Tasks :
        (/\ t1 # t2
         /\ fl_pc[t1] # "idle"
         /\ fl_pc[t2] # "idle"
         /\ fl_tf[t1] = fl_tf[t2])
            => (fl_log[t1] = <<>> \/ fl_log[t2] = <<>>)

--------------------------------------------------------------------------
(* rate_limit called by one task at a time: the CoinMarketCap operations  *)
(* of a sequential run (lines 49-55, 70-76, 93-106, 514-522).             *)
(* now and last_request_time count ticks, as for the concurrent tasks.    *)

InitTurn ==
    /\ cmc_api_key = TRUE
    /\ price_cache = EmptyCache
    /\ last_request_time = 0
    /\ now = Interval
    /\ NoCall
    /\ sq_pc = "idle"
    /\ sq_wake = 0
    /\ sq_returns = <<>>
    /\ sq_sends = <<>>

\* Lines 70 and 93 into lines 51-55: the operation calls rate_limit, which
\* starts to sleep or, with nothing to wait for, sets last_request_time
\* and returns.
SqCall ==
    /\ sq_pc = "idle"
    /\ LET d == SleepFor(now, last_request_time, Interval)
       IN  IF d > 0
           THEN /\ sq_pc' = "sleeping"
                /\ sq_wake' = now + d
                /\ UNCHANGED <<last_request_time, sq_returns>>
           ELSE /\ sq_pc' = "turn"
                /\ sq_wake' = 0
                /\ last_request_time' = now
                /\ sq_returns' = Granted(sq_returns, now)
    /\ UNCHANGED <<now, sq_sends>>
    /\ UNCHANGED nonTurnVars

\* Line 55 after the sleep: the task is resumed, no sooner than asked,
\* sets last_request_time and returns.
SqWake ==
    /\ sq_pc = "sleeping"
    /\ now >= sq_wake
    /\ sq_pc' = "turn"
    /\ last_request_time' = now
    /\ sq_returns' = Granted(sq_returns, now)
    /\ UNCHANGED <<now, sq_wake, sq_sends>>
    /\ UNCHANGED nonTurnVars

\* Lines 75-76 and 105-106: the session is opened, the connection made and
\* the request sent.
SqSend ==
    /\ sq_pc = "turn"
    /\ sq_pc' = "sent"
    /\ sq_sends' = Granted(sq_sends, now)
    /\ UNCHANGED <<now, last_request_time, sq_wake, sq_returns>>
    /\ UNCHANGED nonTurnVars

\* The response is read and the operation returns: the sequential run goes
\* on to its next operation.
SqResponse ==
    /\ sq_pc = "sent"
    /\ sq_pc' = "idle"
    /\ UNCHANGED <<now, last_request_time, sq_wake, sq_returns, sq_sends>>
    /\ UNCHANGED nonTurnVars

\* Time passes, wherever the run stands.
SqTick ==
    /\ now < Interval + MaxTicks
    /\ now' = now + 1
    /\ UNCHANGED <<last_request_time, sq_pc, sq_wake, sq_returns, sq_sends>>
    /\ UNCHANGED nonTurnVars

\* Two returns of rate_limit that follow each other are an interval apart
\* or more.
ReturnsSpaced ==
    Len(sq_returns) = 2 => sq_returns[2] - sq_returns[1] >= Interval

--------------------------------------------------------------------------
(* analyze_tweet_impact (lines 373-444), one timeframe after the other,   *)
(* while the clock runs                                                    *)

\* The order of lines 408-427.
OffsetOrder == <<"first_mention", "post_24h", "post_7d", "post_30d">>

\* The clock when analyze_tweet_impact is entered: a second before the
\* tweet, and a second before the 24 h, the 7 d and the 30 d target.
OffsetStarts ==
    { TweetTime + TimeframeOffset(OffsetOrder[i]) - 1 : i \in DOMAIN OffsetOrder }

\* What get_price_at_time returns for a target that is not in the future,
\* with a price of none, 1 or 2.
OffsetPoints(target) ==
    { point \in ResolvedPoints(target) : point.price_usd \in {NullV, Num(1), Num(2)} }

\* The upstream requests a resolved point may have taken: two for a
\* CoinMarketCap point; for a current point none (no key, no pair address)
\* or all four.
RequestsOf(point) ==
    IF point.data_source = "coinmarketcap" THEN {2} ELSE {0, 4}

InitOffsets ==
    /\ cmc_api_key = TRUE
    /\ price_cache = EmptyCache
    /\ last_request_time = EpochZero
    /\ now \in OffsetStarts
    /\ NoCall
    /\ os_pc = "idle"
    /\ os_now = 0
    /\ os_order = <<>>
    /\ os_points = <<>>
    /\ os_requests = <<>>
    /\ os_changes = <<>>

\* Lines 376-378: the call reads the clock.
OsCall ==
    /\ os_pc = "idle"
    /\ os_pc' = "pair"
    /\ os_now' = now
    /\ os_order' = <<>>
    /\ os_points' = [tf \in Timeframes |-> NoPoint]
    /\ os_requests' = [tf \in Timeframes |-> 0]
    /\ os_changes' = [tf \in LaterTimeframes |-> AbsentV]
    /\ UNCHANGED now
    /\ UNCHANGED nonOffsetVars

\* Lines 384-393: the pair is looked up; without one the record is the
\* error record, which has no timeframe at all.
OsPair ==
    /\ os_pc = "pair"
    /\ \E found \in BOOLEAN :
         os_pc' = IF found THEN OffsetOrder[1] ELSE "done"
    /\ UNCHANGED <<now, os_now, os_order, os_points, os_requests, os_changes>>
    /\ UNCHANGED nonOffsetVars

\* One of lines 408-427, and after the last of them lines 437-444. A later
\* timeframe whose target is after current_time gets the stub; the others
\* go to get_price_at_time, which compares the target with the clock as it
\* is by then.
OsResolve ==
    /\ os_pc \in Timeframes
    /\ LET tf     == os_pc
           k      == Len(os_order) + 1
           target == TweetTime + TimeframeOffset(tf)
           stub   == tf # "first_mention" /\ target > os_now
           points == IF stub THEN {StubPoint(target)}
                     ELSE IF IsFuture(target, now) THEN {FuturePoint(target)}
                     ELSE OffsetPoints(target)
       IN  \E point \in points :
           \E n \in (IF point.data_source = "future_date" THEN {0}
                     ELSE RequestsOf(point)) :
               LET all == [os_points EXCEPT ![tf] = point]
               IN  /\ os_points' = all
                   /\ os_requests' = [os_requests EXCEPT ![tf] = n]
                   /\ os_order' = Append(os_order, tf)
                   /\ IF k < Len(OffsetOrder)
                      THEN /\ os_pc' = OffsetOrder[k + 1]
                           /\ UNCHANGED os_changes
                      ELSE /\ os_pc' = "done"
                           /\ os_changes' =
                                [l \in LaterTimeframes |->
                                    PriceChange(all["first_mention"], all[l])]
    /\ UNCHANGED <<now, os_now>>
    /\ UNCHANGED nonOffsetVars

\* The caller takes the record.
OsReturn ==
    /\ os_pc = "done"
    /\ os_pc' = "idle"
    /\ os_now' = 0
    /\ os_order' = <<>>
    /\ os_points' = <<>>
    /\ os_requests' = <<>>
    /\ os_changes' = <<>>
    /\ UNCHANGED now
    /\ UNCHANGED nonOffsetVars

\* Time passes while the call awaits.
OsTick ==
    /\ \E s \in OffsetStarts : s <= now /\ now < s + MaxDrift
    /\ now' = now + 1
    /\ UNCHANGED offsetVars
    /\ UNCHANGED nonOffsetVars

\* C25: the timeframes of a record are resolved in the order first_mention,
\* 24h, 7d, 30d, and once a timeframe's data_source is future_date, every
\* longer timeframe's data_source is future_date too, its price is null,
\* its price_change is null and no upstream request was made for it.
C25_FutureMonotone ==
    /\ os_pc # "idle" =>
         /\ Len(os_order) <= Len(OffsetOrder)
         /\ \A i \in DOMAIN os_order : os_order[i] = OffsetOrder[i]
    /\ (os_pc = "done" /\ os_order # <<>>) =>
         /\ os_order = OffsetOrder
         /\ \A i, j \in DOMAIN OffsetOrder :
              (i < j /\ os_points[OffsetOrder[i]].data_source = "future_date") =>
                  /\ os_points[OffsetOrder[j]].data_source = "future_date"
                  /\ os_points[OffsetOrder[j]].price_usd = NullV
                  /\ os_changes[OffsetOrder[j]] = NullV
                  /\ os_requests[OffsetOrder[j]] = 0

\* A record whose first mention and 24 h points were resolved with upstream
\* requests and whose 7 d and 30 d points are future_date, the clock having
\* reached the 7 d target before the record was complete.
C25_Witness ==
    /\ os_pc = "done"
    /\ os_points["first_mention"].data_source = "coinmarketcap"
    /\ os_requests["first_mention"] = 2
    /\ os_points["post_24h"].data_source = "dexscreener_current"
    /\ os_requests["post_24h"] = 4
    /\ os_changes["post_24h"] = Num(100)
    /\ os_points["post_7d"].data_source = "future_date"
    /\ os_points["post_30d"].data_source = "future_date"
    /\ now >= TweetTime + TimeframeOffset("post_7d")

--------------------------------------------------------------------------
(* analyze_all_tweets (lines 504-525) with extract_tokens_from_tweets     *)
(* (lines 231-251)                                                         *)

\* Bound: the longest list of tweets in the file.
MaxTweets == 2

\* A word of a tweet's text that starts with $ or #: its sigil and the rest.
Word(sigil, body) == [sigil |-> sigil, body |-> body]

\* str.upper() on the bodies of the model.
Upper(body) == IF body = "pepe" THEN "PEPE" ELSE body

\* A tweet: its id, the $- and #-words of its text, and whether its
\* created_at is well formed.
Tweet(id, words, wellformed) ==
    [id |-> id, words |-> words, wellformed |-> wellformed]

TweetSamples ==
    { Tweet(1, {Word("$", "PEPE")}, TRUE),
      Tweet(2, {Word("$", "pepe"), Word("#", "DOGE")}, TRUE),
      Tweet(3, {Word("$", "PEPE"), Word("#", "DOGE"), Word("$", "BTC")}, TRUE),
      Tweet(4, {Word("#", "DOGE")}, FALSE),
      Tweet(5, {}, TRUE) }

\* Line 235, as far as the model's words go.
ExcludeTokens == {"BTC", "ETH"}

\* Lines 233-250: the set of tokens of all the tweets.
extract_tokens_from_tweets(tweets) ==
    { Upper(w.body) : w \in UNION { tweets[i].words : i \in DOMAIN tweets } }
        \ ExcludeTokens

\* list(tokens) of line 251: the tokens in some order.
Orders(S) ==
    { sq \in [1..Cardinality(S) -> S] : \A a, b \in DOMAIN sq : sq[a] = sq[b] => a = b }

\* Line 517: f"${token}" in tweet['text'] or f"#{token}" in tweet['text'].
Mentions(tweet, token) == \E w \in tweet.words : w.body = token

\* The record of one analysis, as far as the list goes.
Analysis(tweet, token) == [tweet_id |-> tweet.id, token |-> token]

\* Lines 523-525 keeping what was gathered.
OnExceptionPartial(results) == results
\* Lines 523-525: return [].
OnException(results) == <<>>

InitBatch ==
    /\ ba_pc = "idle"
    /\ ba_tweets = <<>>
    /\ ba_tokens = <<>>
    /\ ba_i = 0
    /\ ba_j = 0
    /\ ba_results = <<>>
    /\ ba_raised = FALSE
    /\ ba_out = <<>>

\* Lines 506-513: the file is read (or not: the exception is caught) and
\* the tokens are extracted.
BaCall ==
    /\ ba_pc = "idle"
    /\ \E tweets \in SeqsUpTo(TweetSamples, MaxTweets), readable \in BOOLEAN :
         IF ~readable
         THEN /\ ba_pc' = "done"
              /\ ba_raised' = TRUE
              /\ ba_out' = OnException(<<>>)
              /\ UNCHANGED <<ba_tweets, ba_tokens, ba_i, ba_j, ba_results>>
         ELSE \E tokens \in Orders(extract_tokens_from_tweets(tweets)) :
              /\ ba_tweets' = tweets
              /\ ba_tokens' = tokens
              /\ ba_results' = <<>>
              /\ ba_raised' = FALSE
              /\ IF tweets = <<>> \/ tokens = <<>>
                 THEN /\ ba_pc' = "done"
                      /\ ba_i' = 0
                      /\ ba_j' = 0
                 ELSE /\ ba_pc' = "loop"
                      /\ ba_i' = 1
                      /\ ba_j' = 1
              /\ ba_out' = <<>>
    /\ UNCHANGED nonBatchVars

\* Lines 515-522, one (tweet, token) at a time: a mentioned token is
\* analysed, which raises for a tweet whose created_at is malformed and
\* may raise for any other (a price lookup that raises); the exception
\* ends the call at lines 523-525. After the last pair results is returned.
BaStep ==
    /\ ba_pc = "loop"
    /\ LET tweet == ba_tweets[ba_i]
           token == ba_tokens[ba_j]
           last  == ba_i = Len(ba_tweets) /\ ba_j = Len(ba_tokens)
       IN  \E raises \in BOOLEAN :
           IF Mentions(tweet, token) /\ (raises \/ ~tweet.wellformed)
           THEN /\ ba_pc' = "done"
                /\ ba_raised' = TRUE
                /\ ba_out' = OnException(ba_results)
                /\ UNCHANGED <<ba_i, ba_j, ba_results>>
           ELSE LET results == IF Mentions(tweet, token)
                               THEN Append(ba_results, Analysis(tweet, token))
                               ELSE ba_results
                IN  /\ ba_results' = results
                    /\ ba_raised' = FALSE
                    /\ IF last
                       THEN /\ ba_pc' = "done"
                            /\ ba_out' = results
                            /\ UNCHANGED <<ba_i, ba_j>>
                       ELSE /\ ba_pc' = "loop"
                            /\ ba_out' = <<>>
                            /\ ba_i' = IF ba_j = Len(ba_tokens) THEN ba_i + 1 ELSE ba_i
                            /\ ba_j' = IF ba_j = Len(ba_tokens) THEN 1 ELSE ba_j + 1
    /\ UNCHANGED <<ba_tweets, ba_tokens>>
    /\ UNCHANGED nonBatchVars

\* The caller takes the list.
BaReturn ==
    /\ ba_pc = "done"
    /\ ba_pc' = "idle"
    /\ ba_tweets' = <<>>
    /\ ba_tokens' = <<>>
    /\ ba_i' = 0
    /\ ba_j' = 0
    /\ ba_results' = <<>>
    /\ ba_raised' = FALSE
    /\ ba_out' = <<>>
    /\ UNCHANGED nonBatchVars

\* The pairs (tweet position, token position) whose tweet mentions the
\* token.
MentionPairs ==
    { p \in (DOMAIN ba_tweets) \X (DOMAIN ba_tokens) :
        Mentions(ba_tweets[p[1]], ba_tokens[p[2]]) }

\* C26: the list returned is either empty or holds one record for every
\* (tweet, token) pair whose tweet mentions the token, and no other, the
\* records of an earlier tweet before those of a later one; once an
\* analysis has raised, the list returned is empty whatever was gathered,
\* and nothing is returned before the loop has ended.
C26_AllOrNothing ==
    /\ ba_pc = "loop" => ba_out = <<>>
    /\ (ba_pc = "done" /\ ba_raised) => ba_out = <<>>
    /\ (ba_pc = "done" /\ ba_out # <<>>) =>
         /\ Len(ba_out) = Cardinality(MentionPairs)
         /\ \A p \in MentionPairs :
              \E k \in DOMAIN ba_out :
                 ba_out[k] = Analysis(ba_tweets[p[1]], ba_tokens[p[2]])
         /\ \A k, l \in DOMAIN ba_out :
              k < l => \E a, b \in DOMAIN ba_tweets :
                          /\ a <= b
                          /\ ba_tweets[a].id = ba_out[k].tweet_id
                          /\ ba_tweets[b].id = ba_out[l].tweet_id
    /\ (ba_pc = "done" /\ ~ba_raised) =>
         Len(ba_out) = Cardinality(MentionPairs)

\* The analysis of the second tweet raised after two records were gathered
\* for the first, and the empty list was returned.
C26_Witness ==
    /\ ba_pc = "done"
    /\ ba_raised
    /\ Len(ba_tweets) = 2
    /\ ba_i = 2
    /\ Len(ba_results) = 2
    /\ ba_out = <<>>

--------------------------------------------------------------------------
(* print_analysis_summary (lines 560-632) on the record of an analysis *)

\* How long after the analysis the summary is printed: at once, or a day
\* later.
PrintDelays == {0, 86400}

\* No percentage is displayed: "N/A (Future date)".
NotShown == [shown |-> FALSE, pct |-> 0]

\* Lines 594-622 for one later timeframe, given the record's first mention
\* price and the record's price of the timeframe: what is displayed.
Displayed(tf, first_usd, post_usd, t) ==
    LET first_price == FloatOrZero(first_usd)
        post_time   == TweetTime + TimeframeOffset(tf)
    IN  IF post_time <= t /\ post_usd.t = "num"
        THEN [shown |-> TRUE,
              pct   |-> IF first_price > 0
                        THEN ((post_usd.v - first_price) * 100) \div first_price
                        ELSE 0]
        ELSE NotShown

\* print_analysis_summary on the record just built, at instant t.
print_analysis_summary(t) ==
    /\ im_pc = "done"
    /\ su_pc = "none"
    /\ su_pc' = "printed"
    /\ su_now' = t
    /\ su_shown' = [tf \in LaterTimeframes |->
                      Displayed(tf, Get(im_points["first_mention"].price_usd),
                                Get(im_points[tf].price_usd), t)]
    /\ UNCHANGED nonSummaryVars

PrintAny ==
    /\ im_pc = "done"
    /\ \E d \in PrintDelays : print_analysis_summary(im_now + d)

\* The run goes on to the next record.
SummaryReturn ==
    /\ su_pc = "printed"
    /\ su_pc' = "none"
    /\ su_now' = 0
    /\ su_shown' = <<>>
    /\ im_pc' = "idle"
    /\ im_now' = 0
    /\ im_points' = [tf \in Timeframes |-> NoPoint]
    /\ im_changes' = [tf \in LaterTimeframes |-> AbsentV]
    /\ UNCHANGED nonImpactSummaryVars

\* C27: the summary displays a percentage for a timeframe only when the
\* record's price_change of that timeframe is a number, and then the
\* percentage displayed is the recorded one; when the recorded change is
\* unavailable no percentage is displayed.
C27_SummaryAgrees ==
    su_pc = "printed" =>
        \A tf \in LaterTimeframes :
            /\ su_shown[tf].shown =>
                 /\ im_changes[tf].t = "num"
                 /\ su_shown[tf].pct = im_changes[tf].v
            /\ im_changes[tf] = NullV => ~su_shown[tf].shown

--------------------------------------------------------------------------
(* The timeline readers: TweetFetcher.fetch_user_tweets (fetch_tweets.py   *)
(* lines 240-296), fetch_tweets (scraper.py lines 194-247) and             *)
(* fetch_home_timeline (scraper.py lines 257-330)                          *)

\* Bounds: the largest count asked for, the most instructions of a
\* response, the most entries of one TimelineAddEntries instruction.
MaxCount == 2
MaxInstructions == 2
MaxEntries == 2

\* An entry: one with a tweet (tweet_results with a result that has
\* 'legacy'), one without tweet_results (a cursor), one whose result has
\* no 'legacy'.
EntryKinds == {"tweet", "cursor", "nolegacy"}

PinEntry(kind) == [type |-> "TimelinePinEntry", entries |-> <<kind>>]
AddEntries(kinds) == [type |-> "TimelineAddEntries", entries |-> kinds]
ClearCache == [type |-> "TimelineClearCache", entries |-> <<>>]

\* The instructions a response may hold.
InstructionSamples ==
    { PinEntry("tweet"), PinEntry("nolegacy"), ClearCache }
    \cup { AddEntries(kinds) : kinds \in SeqsUpTo({"tweet", "cursor"}, MaxEntries) }

TimelineResponses == SeqsUpTo(InstructionSamples, MaxInstructions)

\* The tweet built from entry j of instruction i: its rest_id tells the
\* place of the entry in the response.
TweetAt(i, j, pinned) == [id |-> <<i, j>>, pinned |-> pinned]

\* The loop over the entries of one TimelineAddEntries instruction, from
\* entry j on: a tweet is appended, and the loop is left once count tweets
\* are gathered.
RECURSIVE EntriesFrom(_, _, _, _, _)
EntriesFrom(entries, i, j, tweets, count) ==
    IF j > Len(entries) THEN tweets
    ELSE IF entries[j] # "tweet"
    THEN EntriesFrom(entries, i, j + 1, tweets, count)
    ELSE LET more == Append(tweets, TweetAt(i, j, FALSE))
         IN  IF Len(more) >= count THEN more
             ELSE EntriesFrom(entries, i, j + 1, more, count)

\* What one instruction adds to tweets in the user timeline readers.
AfterInstruction(ins, i, tweets, count) ==
    IF ins.type = "TimelinePinEntry"
    THEN IF ins.entries[1] = "tweet" THEN Append(tweets, TweetAt(i, 1, TRUE))
                                     ELSE tweets
    ELSE EntriesFrom(ins.entries, i, 1, tweets, count)

\* The loop over the instructions without the check that follows each
\* instruction.
RECURSIVE UserTimelineNoCheck(_, _, _, _)
UserTimelineNoCheck(instructions, i, tweets, count) ==
    IF i > Len(instructions) THEN tweets
    ELSE IF instructions[i].type \notin {"TimelinePinEntry", "TimelineAddEntries"}
    THEN UserTimelineNoCheck(instructions, i + 1, tweets, count)
    ELSE UserTimelineNoCheck(instructions, i + 1,
                             AfterInstruction(instructions[i], i, tweets, count),
                             count)
\* The loop over the instructions of fetch_user_tweets and fetch_tweets,
\* from instruction i on: other instructions are skipped, and after a pin
\* or an add instruction the loop is left once count tweets are gathered.
RECURSIVE UserTimeline(_, _, _, _)
UserTimeline(instructions, i, tweets, count) ==
    IF i > Len(instructions) THEN tweets
    ELSE IF instructions[i].type \notin {"TimelinePinEntry", "TimelineAddEntries"}
    THEN UserTimeline(instructions, i + 1, tweets, count)
    ELSE LET more == AfterInstruction(instructions[i], i, tweets, count)
         IN  IF Len(more) >= count THEN more
             ELSE UserTimeline(instructions, i + 1, more, count)

\* The loop over the instructions of fetch_home_timeline, from instruction
\* i on: only the inner loop is ever left early.
RECURSIVE HomeTimeline(_, _, _, _)
HomeTimeline(instructions, i, tweets, count) ==
    IF i > Len(instructions) THEN tweets
    ELSE IF instructions[i].type = "TimelineAddEntries"
    THEN HomeTimeline(instructions, i + 1,
                      EntriesFrom(instructions[i].entries, i, 1, tweets, count),
                      count)
    ELSE HomeTimeline(instructions, i + 1, tweets, count)

InitTimeline ==
    /\ tl_pc = "idle"
    /\ tl_op = ""
    /\ tl_count = 0
    /\ tl_instructions = <<>>
    /\ tl_raised = FALSE
    /\ tl_out = <<>>

\* One of the two user timeline readers, with the response it got: a
\* failed request, or a response without instructions, gives [].
UserFetch(op, count, ok, instructions) ==
    /\ tl_pc = "idle"
    /\ tl_pc' = "done"
    /\ tl_op' = op
    /\ tl_count' = count
    /\ tl_instructions' = IF ok THEN instructions ELSE <<>>
    /\ tl_raised' = FALSE
    /\ tl_out' = IF ok THEN UserTimeline(instructions, 1, <<>>, count) ELSE <<>>
    /\ UNCHANGED nonTimelineVars

\* TweetFetcher.fetch_user_tweets.
FetchUserTweets ==
    /\ tl_pc = "idle"
    /\ \E count \in 1..MaxCount, ok \in BOOLEAN, ins \in TimelineResponses :
         UserFetch("fetch_user_tweets", count, ok, ins)

\* scraper.fetch_tweets.
FetchTweets ==
    /\ tl_pc = "idle"
    /\ \E count \in 1..MaxCount, ok \in BOOLEAN, ins \in TimelineResponses :
         UserFetch("fetch_tweets", count, ok, ins)

\* scraper.fetch_home_timeline: a failed request, or a response without
\* instructions, raises.
FetchHomeTimeline ==
    /\ tl_pc = "idle"
    /\ \E count \in 1..MaxCount, ok \in BOOLEAN, ins \in TimelineResponses :
         /\ tl_pc' = "done"
         /\ tl_op' = "fetch_home_timeline"
         /\ tl_count' = count
         /\ tl_instructions' = IF ok THEN ins ELSE <<>>
         /\ tl_raised' = (~ok \/ ins = <<>>)
         /\ tl_out' = IF ok THEN HomeTimeline(ins, 1, <<>>, count) ELSE <<>>
    /\ UNCHANGED nonTimelineVars

\* The caller takes the list.
TimelineReturn ==
    /\ tl_pc = "done"
    /\ tl_pc' = "idle"
    /\ tl_op' = ""
    /\ tl_count' = 0
    /\ tl_instructions' = <<>>
    /\ tl_raised' = FALSE
    /\ tl_out' = <<>>
    /\ UNCHANGED nonTimelineVars

\* Place a comes before place b in the response.
Before(a, b) == a[1] < b[1] \/ (a[1] = b[1] /\ a[2] < b[2])

\* C29: whatever the instructions of the response, fetch_user_tweets and
\* fetch_tweets return at most count tweets, each of them the tweet of an
\* entry of the response, in the order of the entries.
C29_UserAtMostCount ==
    (tl_pc = "done" /\ tl_op \in {"fetch_user_tweets", "fetch_tweets"}) =>
        /\ Len(tl_out) <= tl_count
        /\ \A k \in DOMAIN tl_out :
             LET at == tl_out[k].id
             IN  /\ at[1] \in DOMAIN tl_instructions
                 /\ at[2] \in DOMAIN tl_instructions[at[1]].entries
                 /\ tl_instructions[at[1]].entries[at[2]] = "tweet"
        /\ \A k, l \in DOMAIN tl_out : k < l => Before(tl_out[k].id, tl_out[l].id)

\* fetch_user_tweets with count 2 on a response that adds two tweets and
\* then pins one: the two added tweets are returned, the pinned one is not.
C29_Witness ==
    /\ tl_pc = "done"
    /\ tl_op = "fetch_user_tweets"
    /\ tl_count = 2
    /\ tl_instructions = <<AddEntries(<<"tweet", "tweet">>), PinEntry("tweet")>>
    /\ tl_out = <<TweetAt(1, 1, FALSE), TweetAt(1, 2, FALSE)>>

\* C30: whatever the instructions of the response, more than one
\* TimelineAddEntries instruction included, fetch_home_timeline returns at
\* most count tweets.
C30_HomeAtMostCount ==
    (tl_pc = "done" /\ tl_op = "fetch_home_timeline") =>
        Len(tl_out) <= tl_count

--------------------------------------------------------------------------
(* The parts that are not under way *)

NoClient ==
    /\ cl_pc = "idle"
    /\ cl_op = ""
    /\ cl_resp = <<>>
    /\ cl_out = <<>>

NoCacheUse ==
    /\ ca_stored = <<>>
    /\ ca_triple = <<>>
    /\ ca_found = {}

NoRecord ==
    /\ sv_pc = "none"
    /\ sv_record = <<>>
    /\ sv_file = <<>>
    /\ sv_parsed = <<>>

NoFlight ==
    /\ fl_pc = <<>>
    /\ fl_tf = <<>>
    /\ fl_wake = <<>>
    /\ fl_result = <<>>
    /\ fl_log = <<>>

NoTurn ==
    /\ sq_pc = "idle"
    /\ sq_wake = 0
    /\ sq_returns = <<>>
    /\ sq_sends = <<>>

NoOffsets ==
    /\ os_pc = "idle"
    /\ os_now = 0
    /\ os_order = <<>>
    /\ os_points = <<>>
    /\ os_requests = <<>>
    /\ os_changes = <<>>

NoBatch ==
    /\ ba_pc = "idle"
    /\ ba_tweets = <<>>
    /\ ba_tokens = <<>>
    /\ ba_i = 0
    /\ ba_j = 0
    /\ ba_results = <<>>
    /\ ba_raised = FALSE
    /\ ba_out = <<>>

NoSummary ==
    /\ su_pc = "none"
    /\ su_now = 0
    /\ su_shown = <<>>

NoTimeline ==
    /\ tl_pc = "idle"
    /\ tl_op = ""
    /\ tl_count = 0
    /\ tl_instructions = <<>>
    /\ tl_raised = FALSE
    /\ tl_out = <<>>

\* The parts of the later sections.
NoLater == NoTurn /\ NoOffsets /\ NoBatch /\ NoSummary /\ NoTimeline

NoOther == NoClient /\ NoCacheUse /\ NoRecord /\ NoFlight /\ NoLater

--------------------------------------------------------------------------
(* Specifications *)

\* get_price_at_time, call after call.
Init == InitResolver /\ NoTask /\ NoSelection /\ NoAnalysis /\ NoOther

Next ==
    \/ CallAny
    \/ CmcSearch
    \/ CmcHistorical
    \/ DexCandles
    \/ DexHistory
    \/ Fallback
    \/ Return

Spec == Init /\ [][Next]_vars

\* rate_limit under concurrent callers.
InitRateSpec == InitRate /\ NoSelection /\ NoAnalysis /\ NoOther

NextRate ==
    \/ RlCallAny
    \/ RlWakeAny
    \/ RlTick

SpecRate == InitRateSpec /\ [][NextRate]_vars

\* get_best_token_pair, call after call.
InitPairSpec == InitPair /\ NoTask /\ NoAnalysis /\ NoOther

NextPair ==
    \/ SelectAny
    \/ SelectReturn

SpecPair == InitPairSpec /\ [][NextPair]_vars

\* analyze_tweet_impact, call after call.
InitImpactSpec == InitImpact /\ NoTask /\ NoSelection /\ NoOther

NextImpact ==
    \/ AnalyzeAny
    \/ AnalyzeReturn

SpecImpact == InitImpactSpec /\ [][NextImpact]_vars

\* The cache functions, store after lookup after store.
InitCacheSpec ==
    /\ InitResolver /\ NoTask /\ NoSelection /\ NoAnalysis
    /\ NoClient /\ NoRecord /\ NoFlight /\ NoLater
    /\ InitCache

NextCache ==
    \/ CacheStoreAny
    \/ CacheLookupAny

SpecCache == InitCacheSpec /\ [][NextCache]_vars

\* get_price_at_time, then the record of its point saved and read back.
InitRecordSpec ==
    InitResolver /\ NoTask /\ NoSelection /\ NoAnalysis /\ NoOther

NextRecord ==
    \/ RecordCallAny
    \/ CmcSearch
    \/ CmcHistorical
    \/ DexCandles
    \/ DexHistory
    \/ Fallback
    \/ WriteRecord
    \/ SaveAnalysis
    \/ LoadAnalysis
    \/ RecordReturn

SpecRecord == InitRecordSpec /\ [][NextRecord]_vars

\* get_price_at_time under concurrent callers.
InitFlightSpec ==
    /\ InitResolver /\ NoTask /\ NoSelection /\ NoAnalysis
    /\ NoClient /\ NoCacheUse /\ NoRecord /\ NoLater
    /\ InitFlight

NextFlight ==
    \/ FlCallAny
    \/ FlCmcOperationAny
    \/ FlWakeAny
    \/ FlDexCandlesAny
    \/ FlDexHistoryAny
    \/ FlFallbackAny
    \/ FlReturnAny

SpecFlight == InitFlightSpec /\ [][NextFlight]_vars

\* The provider-client operations, call after call.
InitClientSpec ==
    InitResolver /\ NoTask /\ NoSelection /\ NoAnalysis /\ NoOther

NextClient ==
    \/ ClSearchCmcToken
    \/ ClCmcHistorical
    \/ ClCmcCurrent
    \/ ClSearchToken
    \/ ClReturn

SpecClient == InitClientSpec /\ [][NextClient]_vars

\* rate_limit under one caller at a time.
InitTurnSpec == InitTurn /\ NoTask /\ NoSelection /\ NoAnalysis /\ NoOther

NextTurn ==
    \/ SqCall
    \/ SqWake
    \/ SqSend
    \/ SqResponse
    \/ SqTick

SpecTurn == InitTurnSpec /\ [][NextTurn]_vars

\* analyze_tweet_impact, offset by offset.
InitOffsetsSpec ==
    InitOffsets /\ NoTask /\ NoSelection /\ NoAnalysis /\ NoOther

NextOffsets ==
    \/ OsCall
    \/ OsPair
    \/ OsResolve
    \/ OsReturn
    \/ OsTick

SpecOffsets == InitOffsetsSpec /\ [][NextOffsets]_vars

\* analyze_all_tweets, call after call.
InitBatchSpec ==
    InitResolver /\ InitBatch /\ NoTask /\ NoSelection /\ NoAnalysis /\ NoOther

NextBatch ==
    \/ BaCall
    \/ BaStep
    \/ BaReturn

SpecBatch == InitBatchSpec /\ [][NextBatch]_vars

\* analyze_tweet_impact and the summary of its record, again and again.
InitSummarySpec == InitImpact /\ NoTask /\ NoSelection /\ NoOther

NextSummary ==
    \/ AnalyzeAny
    \/ PrintAny
    \/ SummaryReturn

SpecSummary == InitSummarySpec /\ [][NextSummary]_vars

\* The cache functions, with triples whose components hold the separator.
InitKeysSpec ==
    /\ InitResolver /\ NoTask /\ NoSelection /\ NoAnalysis
    /\ NoClient /\ NoRecord /\ NoFlight /\ NoLater
    /\ InitKeys

NextKeys ==
    \/ KeyStoreAny
    \/ KeyLookupAny

SpecKeys == InitKeysSpec /\ [][NextKeys]_vars

\* The timeline readers, call after call.
InitTimelineSpec ==
    InitResolver /\ InitTimeline /\ NoTask /\ NoSelection /\ NoAnalysis /\ NoOther

NextTimeline ==
    \/ FetchUserTweets
    \/ FetchTweets
    \/ FetchHomeTimeline
    \/ TimelineReturn

SpecTimeline == InitTimelineSpec /\ [][NextTimeline]_vars

====
